---- MODULE Spec2Model ----
(***************************************************************************)
(* The Bonparte Cafe: the Express backend (src/backend/server.js) over the *)
(* JSON files of its data directory.                                       *)
(*                                                                         *)
(* A JavaScript value is a tagged record, so that values of different      *)
(* types can be compared.  The content of a file on disk is the JSON text  *)
(* written by JSON.stringify, represented by the value that text denotes   *)
(* (JSON has no Infinity, so a file never holds one), or Absent (no such   *)
(* file).                                                                  *)
(*                                                                         *)
(* TLC sorts the fields of a record by the place where each name first     *)
(* occurs as an identifier of this module, and two workers that sort one   *)
(* record at a time fail with 'Field name occurs multiple times in         *)
(* record'.  Every record constructor below therefore lists its fields in  *)
(* that order.                                                             *)
(***************************************************************************)
EXTENDS Integers, Sequences, FiniteSets, TLC

\* Longest item array among the acceptable menus a POST of the model carries.
MaxItems == 1

(***************************************************************************)
(* JavaScript values                                                       *)
(***************************************************************************)
Scalar(tag, n, s) == [n |-> n, s |-> s, t |-> tag]
Num(n) == Scalar("num", n, "")
Str(s) == Scalar("str", 0, s)
Bool(b) == Scalar("bool", IF b THEN 1 ELSE 0, "")
Null == Scalar("null", 0, "")
Undefined == Scalar("undefined", 0, "")
\* The number Infinity: what JSON.parse makes of a literal such as 1e999.
Infinity == Scalar("infinity", 0, "")
NaN == Scalar("nan", 0, "")
Arr(elems) == [t |-> "arr", a |-> elems]
Obj(props) == [t |-> "obj", o |-> props]

\* Placeholders of the model: a missing file, no payload.
Absent == Scalar("absent", 0, "")
NoValue == Scalar("none", 0, "")

\* v.k for a non-null v: undefined unless v is an object that has the key.
Get(v, k) == IF v.t = "obj" /\ k \in DOMAIN v.o THEN v.o[k] ELSE Undefined

\* ToBoolean(v), as used by !v.
Truthy(v) ==
    CASE v.t = "num" -> v.n # 0
      [] v.t = "str" -> v.s # ""
      [] v.t = "bool" -> v.n = 1
      [] v.t \in {"null", "undefined", "nan"} -> FALSE
      [] OTHER -> TRUE

IsArray(v) == v.t = "arr"

\* a === b for a primitive b: same type and value, NaN equal to nothing.
StrictEquals(a, b) == a.t \notin {"nan", "arr", "obj"} /\ a = b

\* JSON.stringify(v, null, 2), as the value its text denotes: a non-finite
\* number is written as null, arrays and objects are written member by member.
RECURSIVE JSONStringify(_)
JSONStringify(v) ==
    CASE v.t \in {"infinity", "nan"} -> Null
      [] v.t = "arr" -> Arr([i \in DOMAIN v.a |-> JSONStringify(v.a[i])])
      [] v.t = "obj" -> Obj([k \in DOMAIN v.o |-> JSONStringify(v.o[k])])
      [] OTHER -> v

\* The text of a file that fs.writeFile opened and did not write yet (empty),
\* and a text of n characters that is one write's text followed by the end
\* of a longer text written before it.
Truncated == Scalar("truncated", 0, "")
Garbled(n) == Scalar("garbled", n, "")

\* JSON.parse(content) raises a SyntaxError: the text is empty, or a JSON
\* value followed by more characters.
ParseThrows(content) == content.t \in {"truncated", "garbled"}

\* JSON.parse(content) of a file's text that parses: the value the text
\* denotes.
JSONParse(content) == content

(***************************************************************************)
(* Filenames                                                               *)
(***************************************************************************)
Letters == {"a", "b", "c", "d", "e", "f", "g", "h", "i", "j", "k", "l", "m",
            "n", "o", "p", "q", "r", "s", "t", "u", "v", "w", "x", "y", "z",
            "A", "B", "C", "D", "E", "F", "G", "H", "I", "J", "K", "L", "M",
            "N", "O", "P", "Q", "R", "S", "T", "U", "V", "W", "X", "Y", "Z"}
Digits == {"0", "1", "2", "3", "4", "5", "6", "7", "8", "9"}

\* The characters of every filename a request of the model carries.
Chars ==
    "menu.json" :> <<"m", "e", "n", "u", ".", "j", "s", "o", "n">> @@
    "specials.json" :> <<"s", "p", "e", "c", "i", "a", "l", "s", ".", "j", "s", "o", "n">> @@
    "events.json" :> <<"e", "v", "e", "n", "t", "s", ".", "j", "s", "o", "n">> @@
    "contact.json" :> <<"c", "o", "n", "t", "a", "c", "t", ".", "j", "s", "o", "n">> @@
    "menu.jsonx" :> <<"m", "e", "n", "u", ".", "j", "s", "o", "n", "x">> @@
    "../menu.json" :> <<".", ".", "/", "m", "e", "n", "u", ".", "j", "s", "o", "n">>

Filenames == DOMAIN Chars

\* filename.match(/^[a-zA-Z0-9_-]+\.json$/)
MatchesFilenamePattern(filename) ==
    LET cs == Chars[filename]
        n == Len(cs)
    IN /\ n >= 6
       /\ SubSeq(cs, n - 4, n) = <<".", "j", "s", "o", "n">>
       /\ \A i \in 1..(n - 5) : cs[i] \in Letters \cup Digits \cup {"_", "-"}

\* The four documents GET /api/data reads, in the order it reads them.
AllFiles == <<"menu", "specials", "events", "contact">>
FileOf == [file \in {"menu", "specials", "events", "contact"} |->
             CASE file = "menu" -> "menu.json"
               [] file = "specials" -> "specials.json"
               [] file = "events" -> "events.json"
               [] file = "contact" -> "contact.json"]

\* The key of the item array of a file that PUT and DELETE work on.
ItemFiles == {"menu.json", "specials.json", "events.json"}
ItemsKey(filename) ==
    CASE filename = "menu.json" -> "items"
      [] filename = "specials.json" -> "specials"
      [] filename = "events.json" -> "events"

(***************************************************************************)
(* validateData                                                            *)
(***************************************************************************)
NoError == ""
\* The result of a validateData that raised a TypeError (item.id of null).
ThrowsTypeError == "TypeError"

MenuItemFields == <<"id", "name", "category", "price", "description", "image">>
SpecialFields == <<"id", "day", "name", "items", "price", "discount", "description">>
EventFields == <<"id", "name", "date", "description", "image", "tag">>

Range(seq) == {seq[i] : i \in DOMAIN seq}

\* The loop over the items: the first item decides.  An item that is null
\* raises, an item with a required field missing or falsy is rejected.
RECURSIVE ValidateItems(_, _, _)
ValidateItems(items, fields, message) ==
    IF items = <<>> THEN NoError
    ELSE LET item == Head(items) IN
         IF item.t = "null" THEN ThrowsTypeError
         ELSE IF \E k \in Range(fields) : ~Truthy(Get(item, k)) THEN message
         ELSE ValidateItems(Tail(items), fields, message)

validateData(filename, data) ==
    CASE filename = "menu.json" ->
           IF ~Truthy(Get(data, "categories")) \/ ~IsArray(Get(data, "categories"))
           THEN "Menu data must have a categories array"
           ELSE IF ~Truthy(Get(data, "items")) \/ ~IsArray(Get(data, "items"))
           THEN "Menu data must have an items array"
           ELSE ValidateItems(Get(data, "items").a, MenuItemFields,
                  "Each menu item must have id, name, category, price, description, and image")
      [] filename = "specials.json" ->
           IF ~Truthy(Get(data, "specials")) \/ ~IsArray(Get(data, "specials"))
           THEN "Specials data must have a specials array"
           ELSE ValidateItems(Get(data, "specials").a, SpecialFields,
                  "Each special must have id, day, name, items, price, discount, and description")
      [] filename = "events.json" ->
           IF ~Truthy(Get(data, "events")) \/ ~IsArray(Get(data, "events"))
           THEN "Events data must have an events array"
           ELSE ValidateItems(Get(data, "events").a, EventFields,
                  "Each event must have id, name, date, description, image, and tag")
      [] filename = "contact.json" ->
           IF \E k \in {"address", "phone", "email", "workingHours", "socialMedia"} :
                 ~Truthy(Get(data, k))
           THEN "Contact data must have address, phone, email, workingHours, and socialMedia"
           ELSE IF \E k \in {"weekdays", "weekends"} :
                 ~Truthy(Get(Get(data, "workingHours"), k))
           THEN "Contact data must have weekdays and weekends in workingHours"
           ELSE IF \E k \in {"facebook", "instagram", "twitter", "tripadvisor"} :
                 ~Truthy(Get(Get(data, "socialMedia"), k))
           THEN "Contact data must have all social media links"
           ELSE NoError
      [] OTHER -> NoError

(***************************************************************************)
(* Requests of the model                                                   *)
(***************************************************************************)
MenuItem(id, name, price) ==
    Obj([id |-> Num(id), name |-> Str(name), price |-> price,
         category |-> Str("Coffee"), description |-> Str("x"),
         image |-> Str("a.jpg")])
Latte == MenuItem(1, "Latte", Num(450))
Mocha == MenuItem(2, "Mocha", Num(500))
\* {"id": 3, "name": "Gold", ..., "price": 1e999}
Gold == MenuItem(3, "Gold", Infinity)
\* {"id": 3, "name": "Cheap", ..., "price": -5}
Cheap == MenuItem(3, "Cheap", Num(-5))
\* An item without a name.
Nameless == Obj([id |-> Num(3), price |-> Num(300), category |-> Str("Coffee"),
                 description |-> Str("x"), image |-> Str("a.jpg")])

Special(id, discount) ==
    Obj([items |-> Str("Latte + Cake"), id |-> Num(id), name |-> Str("Combo"),
         price |-> Num(700), description |-> Str("x"), discount |-> discount,
         day |-> Str("Monday")])
Event(id, tag) ==
    Obj([tag |-> tag, id |-> Num(id), name |-> Str("Jazz"),
         description |-> Str("x"), image |-> Str("e.jpg"),
         date |-> Str("2025-01-01"), featured |-> Bool(TRUE)])
Contact(hours, social) ==
    Obj([address |-> Str("1 Main St"), phone |-> Str("555"),
         email |-> Str("a@b.c"), workingHours |-> hours, socialMedia |-> social])
Hours == Obj([weekdays |-> Str("8-20"), weekends |-> Str("9-18")])
Social == Obj([facebook |-> Str("f"), instagram |-> Str("i"),
               twitter |-> Str("t"), tripadvisor |-> Str("a")])

MenuDoc(items) == Obj([items |-> Arr(items), categories |-> Arr(<<Str("Coffee")>>)])
SpecialsDoc(items) == Obj([specials |-> Arr(items)])
EventsDoc(items) == Obj([events |-> Arr(items)])

SeqsUpTo(S, n) == UNION {[1..k -> S] : k \in 0..n}

\* The bodies a POST of the model carries, per filename: every menu of up to
\* MaxItems of the items Latte and Mocha, a menu with a price of 1e999, a menu
\* with a price of -5, and documents that validateData rejects.
Bodies(filename) ==
    CASE filename = "menu.json" ->
           {MenuDoc(items) : items \in SeqsUpTo({Latte, Mocha}, MaxItems)}
           \cup {MenuDoc(<<Gold>>), MenuDoc(<<Cheap>>),
                 MenuDoc(<<Latte, Nameless>>), MenuDoc(<<Null>>),
                 Obj([items |-> Arr(<<Latte>>)]),
                 Obj([categories |-> Arr(<<>>)]),
                 Obj([items |-> Arr(<<Latte>>), categories |-> Str("Coffee")]),
                 Obj([items |-> Str("Latte"), categories |-> Arr(<<>>)])}
      [] filename = "specials.json" ->
           {SpecialsDoc(<<Special(1, Str("10%"))>>),
            SpecialsDoc(<<Special(1, Num(0))>>)}
      [] filename = "events.json" ->
           {EventsDoc(<<Event(1, Str("music"))>>), Arr(<<>>)}
      [] filename = "contact.json" ->
           {Contact(Hours, Social), Contact(Str("8-20"), Social),
            Contact(Hours, Obj([facebook |-> Str("f")])), Obj(<<>>)}
      [] OTHER -> {Obj([note |-> Str("hi")])}

\* The :id path parameters of the model and parseInt of each.  The handlers
\* look at the id of an item file only, so the other filenames come with "1".
IdParams == {"1", "2", "abc"}
IdsFor(filename) == IF filename \in ItemFiles THEN IdParams ELSE {"1"}
parseInt(id) ==
    CASE id = "1" -> Num(1)
      [] id = "2" -> Num(2)
      [] OTHER -> NaN

\* The body a PUT of the model carries.
Patches == {Obj([id |-> Num(2), name |-> Str("")])}

(***************************************************************************)
(* State                                                                   *)
(***************************************************************************)
VARIABLES
    files,    \* the data directory: the content of the file at each path
    last,     \* the last request and the response it was given
    pending,  \* the requests the server is handling, between their awaits
    order,    \* the file-system steps of the pending requests, oldest first
    now,      \* Date.now() of the browser, in milliseconds
    cache,    \* DataAPI.cache of each tab of the browser
    localStorage,   \* the cafe_<filename> items of the browser's localStorage
    ret,            \* the last call of a DataAPI method and what it returned
    currentData,    \* AdminPanel.currentData
    editingItem,    \* AdminPanel.editingItem
    editingSpecial, \* AdminPanel.editingSpecial
    editingEvent,   \* AdminPanel.editingEvent
    called,         \* the last method of the AdminPanel that was called
    inflight,       \* the calls of the browser that wait for their response
    page            \* what each section of the main website shows

\* The requests in progress, the browser, the admin panel, the calls in
\* flight and the main website.
racing == <<pending, order>>
browser == <<now, cache, localStorage, ret>>
panel == <<currentData, editingItem, editingSpecial, editingEvent, called>>
awaited == <<inflight, page>>

\* The state outside the data directory and the last response.
outside == <<racing, browser, panel, awaited>>

vars == <<files, last, racing, browser, panel, awaited>>

\* The seed files of a deployment.
Seed ==
    [f \in Filenames |->
       CASE f = "menu.json" -> MenuDoc(<<Latte, Mocha>>)
         [] f = "specials.json" -> SpecialsDoc(<<Special(1, Str("10%"))>>)
         [] f = "events.json" -> EventsDoc(<<Event(1, Str("music"))>>)
         [] f = "contact.json" -> Contact(Hours, Social)
         [] OTHER -> Absent]

\* fault: the file whose readFile is made to fail with an I/O error, if any.
Request(op, filename, id, body, fault) ==
    [filename |-> filename, id |-> id, op |-> op, body |-> body, fault |-> fault]

\* The payload of GET /api/health.
HealthPayload == Obj([message |-> Str("Cafe API is running"), status |-> Str("OK")])

\* An error payload that carries its text under message instead of error.
ErrorPayload_MessageKey(message) == Obj([message |-> Str(message), success |-> Bool(FALSE)])

\* The payload of an error response: { success: false, error: message }.
ErrorPayload(message) == Obj([success |-> Bool(FALSE), error |-> Str(message)])

\* The payload of a success response: { success: true, data }, or without
\* data.  The other keys of a success payload (message, filename, timestamp,
\* backupPath) are left out, and deletedItem is held under data.
SuccessPayload(data) ==
    IF data = NoValue THEN Obj([success |-> Bool(TRUE)])
    ELSE Obj([data |-> data, success |-> Bool(TRUE)])

\* res.status(status).json(payload), with the files the handler read and
\* wrote before it answered.  json is the payload, success is whether its
\* success is true and error its error, "" for none.
Answer(req, status, success, error, data, reads, writes) ==
    [filename |-> req.filename, data |-> data, id |-> req.id, op |-> req.op,
     body |-> req.body, fault |-> req.fault, status |-> status,
     success |-> success, error |-> error, reads |-> reads, writes |-> writes,
     json |-> IF success THEN SuccessPayload(data) ELSE ErrorPayload(error)]

\* The server handles no request.
Idle == [pc |-> "idle"]
Slots == {1, 2}

\* The two pages of the site, each with a DataAPI of its own, and the files
\* they ask for.
Tabs == {"admin", "public"}
ClientFiles == {"menu.json"}

\* Map.get and localStorage.getItem of a key that is not there.
NoEntry == Scalar("undefined", 0, "")

\* What a call of a DataAPI method returned: the tab, the method and its
\* arguments, up (the server could be reached), networked (fetch was called),
\* result (the document fetchData returned), success (the server answered
\* the call with success; FALSE also when updateItem or deleteItem raised),
\* at (Date.now()).
Returned(tab, call, filename, id, data, up, networked, result, success, at) ==
    [filename |-> filename, data |-> data, id |-> id, success |-> success,
     tab |-> tab, call |-> call, up |-> up, networked |-> networked,
     result |-> result, at |-> at]

\* No DataAPI method was called yet.
NoCall == Returned("", "none", "", "", NoValue, FALSE, FALSE, NoValue, FALSE, 0)

InitRacing ==
    /\ pending = [slot \in Slots |-> Idle]
    /\ order = <<>>

\* new DataAPI() in each tab, an empty localStorage.
InitBrowser ==
    /\ now = 0
    /\ cache = [tab \in Tabs |-> [f \in ClientFiles |-> NoEntry]]
    /\ localStorage = [f \in ClientFiles |-> NoEntry]
    /\ ret = NoCall

\* new AdminPanel(), before init() has loaded anything.
\* A call of an AdminPanel method: the file and the document (for a
\* delete*(), the id) it is about, editing (the id of the editing reference
\* it found, 0 for null), submitted (it called saveData or deleteItem),
\* success (the result of that call had success true).
Called(call, filename, data, editing, submitted, success) ==
    [filename |-> filename, data |-> data, success |-> success, call |-> call,
     editing |-> IF Truthy(editing) THEN Get(editing, "id").n ELSE 0,
     submitted |-> submitted]

\* new AdminPanel(), before init() has loaded anything.
InitPanel ==
    /\ currentData = Obj([file \in {"menu", "specials", "events", "contact"} |-> Null])
    /\ editingItem = Null
    /\ editingSpecial = Null
    /\ editingEvent = Null
    /\ called = Called("constructor", "", NoValue, Null, FALSE, FALSE)

\* The sections of the main website that show a document.
Sections == {"menu", "specials", "events", "contact"}

\* No call is in flight, and the main website shows nothing yet.
InitAwaited ==
    /\ inflight = {}
    /\ page = [section \in Sections |-> NoValue]

InitOutside == InitRacing /\ InitBrowser /\ InitPanel /\ InitAwaited

\* No request was answered.
NoAnswer ==
    [Answer(Request("none", "", "", NoValue, "none"), 0, FALSE, "", NoValue, {}, {})
       EXCEPT !.json = NoValue]

\* A deployment has each seed file or lacks it; no request was made yet.
Init ==
    /\ \E present \in SUBSET {"menu.json", "specials.json", "events.json", "contact.json"} :
          files = [f \in Filenames |-> IF f \in present THEN Seed[f] ELSE Absent]
    /\ last = NoAnswer
    /\ InitOutside

\* fs.writeFile to the path of menu.json, whatever the filename.
WriteFile_FixedPath(filename, text) == [files EXCEPT !["menu.json"] = text]

\* fs.writeFile(filepath, text, 'utf8'): the directory after it.
WriteFile(filename, text) == [files EXCEPT ![filename] = text]

\* fs.readFile(filepath, 'utf8') rejects: an I/O error, or ENOENT for a
\* missing file.
ReadFails(filename, fault) == fault = filename \/ files[filename] = Absent
IsENOENT(filename, fault) == fault # filename /\ files[filename] = Absent

(***************************************************************************)
(* GET /api/data                                                           *)
(***************************************************************************)
\* One round of the loop: the parsed content of the file, or null when
\* readFile raised.
LoadOrNull(file, fault) ==
    IF ReadFails(FileOf[file], fault) \/ ParseThrows(files[FileOf[file]])
    THEN Null
    ELSE JSONParse(files[FileOf[file]])

\* GET /api/data without the inner try/catch: one failing read fails the call.
GetAllData_FailWhole ==
    \E fault \in {FileOf[file] : file \in Range(AllFiles)} \cup {"none"} :
       /\ last' = IF \E file \in Range(AllFiles) :
                        \/ ReadFails(FileOf[file], fault)
                        \/ ParseThrows(files[FileOf[file]])
                  THEN Answer(Request("GETALL", "", "", NoValue, fault), 500, FALSE,
                              "Failed to load data", NoValue,
                              {FileOf[file] : file \in Range(AllFiles)}, {})
                  ELSE Answer(Request("GETALL", "", "", NoValue, fault), 200, TRUE, "",
                              JSONStringify(Obj([file \in Range(AllFiles) |->
                                                   LoadOrNull(file, fault)])),
                              {FileOf[file] : file \in Range(AllFiles)}, {})
       /\ UNCHANGED <<files, outside>>

\* The response of GET /api/data.
GetAllResponse(fault) ==
    Answer(Request("GETALL", "", "", NoValue, fault), 200, TRUE, "",
           JSONStringify(Obj([file \in Range(AllFiles) |-> LoadOrNull(file, fault)])),
           {FileOf[file] : file \in Range(AllFiles)}, {})

GetAllData ==
    \E fault \in {FileOf[file] : file \in Range(AllFiles)} \cup {"none"} :
       /\ last' = GetAllResponse(fault)
       /\ UNCHANGED <<files, outside>>

(***************************************************************************)
(* GET /api/data/:filename                                                 *)
(***************************************************************************)
\* GET /api/data/:filename that reads the file before it checks the filename.
GetResponse_ReadFirst(req) ==
    LET filename == req.filename IN
    IF ReadFails(filename, req.fault)
    THEN IF IsENOENT(filename, req.fault)
         THEN Answer(req, 404, FALSE, "File not found", NoValue, {filename}, {})
         ELSE Answer(req, 500, FALSE, "Failed to read file", NoValue, {filename}, {})
    ELSE IF ParseThrows(files[filename])
    THEN Answer(req, 500, FALSE, "Failed to read file", NoValue, {filename}, {})
    ELSE IF ~MatchesFilenamePattern(filename)
    THEN Answer(req, 400, FALSE, "Invalid filename", NoValue, {filename}, {})
    ELSE Answer(req, 200, TRUE, "", JSONStringify(JSONParse(files[filename])),
                {filename}, {})

GetResponse(req) ==
    LET filename == req.filename IN
    IF ~MatchesFilenamePattern(filename)
    THEN Answer(req, 400, FALSE, "Invalid filename", NoValue, {}, {})
    ELSE IF ReadFails(filename, req.fault)
    THEN IF IsENOENT(filename, req.fault)
         THEN Answer(req, 404, FALSE, "File not found", NoValue, {filename}, {})
         ELSE Answer(req, 500, FALSE, "Failed to read file", NoValue, {filename}, {})
    ELSE IF ParseThrows(files[filename])
    THEN Answer(req, 500, FALSE, "Failed to read file", NoValue, {filename}, {})
    ELSE Answer(req, 200, TRUE, "", JSONStringify(JSONParse(files[filename])),
                {filename}, {})

GetData ==
    \E filename \in Filenames :
       \E fault \in {"none", filename} :
          /\ last' = GetResponse(Request("GET", filename, "", NoValue, fault))
          /\ UNCHANGED <<files, outside>>

(***************************************************************************)
(* POST /api/data/:filename                                                *)
(***************************************************************************)
\* POST that writes the file before it validates the body.
PostOutcome_WriteFirst(req) ==
    LET filename == req.filename
        data == req.body
        validationError == validateData(filename, data)
        written == WriteFile(filename, JSONStringify(data))
    IN
    IF ~MatchesFilenamePattern(filename)
    THEN [files |-> files,
          res |-> Answer(req, 400, FALSE, "Invalid filename", NoValue, {}, {})]
    ELSE IF ~Truthy(data)
    THEN [files |-> files,
          res |-> Answer(req, 400, FALSE, "No data provided", NoValue, {}, {})]
    ELSE IF validationError = ThrowsTypeError
    THEN [files |-> written,
          res |-> Answer(req, 500, FALSE, "Failed to save data", NoValue, {}, {filename})]
    ELSE IF validationError # NoError
    THEN [files |-> written,
          res |-> Answer(req, 400, FALSE, validationError, NoValue, {}, {filename})]
    ELSE [files |-> written,
          res |-> Answer(req, 200, TRUE, "", NoValue, {}, {filename})]

\* The response and the directory after the request.
PostOutcome(req) ==
    LET filename == req.filename
        data == req.body
        validationError == validateData(filename, data)
    IN
    IF ~MatchesFilenamePattern(filename)
    THEN [files |-> files,
          res |-> Answer(req, 400, FALSE, "Invalid filename", NoValue, {}, {})]
    ELSE IF ~Truthy(data)
    THEN [files |-> files,
          res |-> Answer(req, 400, FALSE, "No data provided", NoValue, {}, {})]
    ELSE IF validationError = ThrowsTypeError
    THEN [files |-> files,
          res |-> Answer(req, 500, FALSE, "Failed to save data", NoValue, {}, {})]
    ELSE IF validationError # NoError
    THEN [files |-> files,
          res |-> Answer(req, 400, FALSE, validationError, NoValue, {}, {})]
    ELSE [files |-> WriteFile(filename, JSONStringify(data)),
          res |-> Answer(req, 200, TRUE, "", NoValue, {}, {filename})]

PostData ==
    \E filename \in Filenames :
       \E body \in Bodies(filename) :
          LET out == PostOutcome(Request("POST", filename, "", body, "none")) IN
          /\ last' = out.res
          /\ files' = out.files
          /\ UNCHANGED outside

(***************************************************************************)
(* PUT /api/data/:filename/:id and DELETE /api/data/:filename/:id          *)
(***************************************************************************)
\* findIndex whose -1 goes unnoticed: items[-1 + length], the last item.
findIndex_NoMiss(items, id) ==
    LET hits == {i \in DOMAIN items : StrictEquals(Get(items[i], "id"), id)} IN
    IF hits = {} THEN Len(items) ELSE CHOOSE i \in hits : \A j \in hits : i <= j

\* items.findIndex(item => item.id === id): the index from 1, 0 for -1.
findIndex(items, id) ==
    LET hits == {i \in DOMAIN items : StrictEquals(Get(items[i], "id"), id)} IN
    IF hits = {} THEN 0 ELSE CHOOSE i \in hits : \A j \in hits : i <= j

\* findIndex raises: items is not an array, or the callback reads the id of
\* a null item before it found a match.
findIndexThrows(data, key, id) ==
    LET items == Get(data, key) IN
    \/ ~IsArray(items)
    \/ \E i \in DOMAIN items.a :
          /\ items.a[i].t = "null"
          /\ \A j \in 1..(i - 1) : ~StrictEquals(Get(items.a[j], "id"), id)

\* items[itemIndex] = updateData: the patch replaces the item.
Merge_Replace(item, updateData) == Obj(updateData.o)

\* { ...item, ...updateData } of two objects.
Merge(item, updateData) ==
    Obj([k \in DOMAIN item.o \cup DOMAIN updateData.o |->
           IF k \in DOMAIN updateData.o THEN updateData.o[k] ELSE item.o[k]])

\* items.splice(itemIndex, 1)
Splice(items, itemIndex) ==
    [i \in 1..(Len(items) - 1) |-> IF i < itemIndex THEN items[i] ELSE items[i + 1]]

\* data after its item array was changed in place.
WithItems(data, key, items) == Obj([data.o EXCEPT ![key] = Arr(items)])

PutOutcome(req) ==
    LET filename == req.filename
        id == parseInt(req.id)
        updateData == req.body
        data == JSONParse(files[filename])
        key == ItemsKey(filename)
        items == Get(data, key).a
        itemIndex == findIndex(items, id)
        merged == [items EXCEPT ![itemIndex] = Merge(items[itemIndex], updateData)]
        failed == Answer(req, 500, FALSE, "Failed to update item", NoValue, {filename}, {})
    IN
    IF ~MatchesFilenamePattern(filename)
    THEN [files |-> files,
          res |-> Answer(req, 400, FALSE, "Invalid filename", NoValue, {}, {})]
    ELSE IF ReadFails(filename, req.fault) \/ ParseThrows(files[filename])
    THEN [files |-> files, res |-> failed]
    ELSE IF filename \notin ItemFiles
    THEN [files |-> files,
          res |-> Answer(req, 400, FALSE, "Cannot update this file type", NoValue,
                         {filename}, {})]
    ELSE IF findIndexThrows(data, key, id)
    THEN [files |-> files, res |-> failed]
    ELSE IF itemIndex = 0
    THEN [files |-> files,
          res |-> Answer(req, 404, FALSE, "Item not found", NoValue, {filename}, {})]
    ELSE [files |-> WriteFile(filename, JSONStringify(WithItems(data, key, merged))),
          res |-> Answer(req, 200, TRUE, "", JSONStringify(merged[itemIndex]),
                         {filename}, {filename})]

PutItem ==
    \E filename \in Filenames, updateData \in Patches :
       \E id \in IdsFor(filename) :
          LET out == PutOutcome(Request("PUT", filename, id, updateData, "none")) IN
          /\ last' = out.res
          /\ files' = out.files
          /\ UNCHANGED outside

DeleteOutcome(req) ==
    LET filename == req.filename
        id == parseInt(req.id)
        data == JSONParse(files[filename])
        itemsKey == ItemsKey(filename)
        items == Get(data, itemsKey).a
        itemIndex == findIndex(items, id)
        deletedItem == items[itemIndex]
        failed == Answer(req, 500, FALSE, "Failed to delete item", NoValue, {filename}, {})
    IN
    IF ~MatchesFilenamePattern(filename)
    THEN [files |-> files,
          res |-> Answer(req, 400, FALSE, "Invalid filename", NoValue, {}, {})]
    ELSE IF ReadFails(filename, req.fault) \/ ParseThrows(files[filename])
    THEN [files |-> files, res |-> failed]
    ELSE IF filename \notin ItemFiles
    THEN [files |-> files,
          res |-> Answer(req, 400, FALSE, "Cannot delete from this file type", NoValue,
                         {filename}, {})]
    ELSE IF findIndexThrows(data, itemsKey, id)
    THEN [files |-> files, res |-> failed]
    ELSE IF itemIndex = 0
    THEN [files |-> files,
          res |-> Answer(req, 404, FALSE, "Item not found", NoValue, {filename}, {})]
    ELSE [files |-> WriteFile(filename,
                      JSONStringify(WithItems(data, itemsKey, Splice(items, itemIndex)))),
          res |-> Answer(req, 200, TRUE, "", JSONStringify(deletedItem),
                         {filename}, {filename})]

DeleteItem ==
    \E filename \in Filenames :
       \E id \in IdsFor(filename) :
          LET out == DeleteOutcome(Request("DELETE", filename, id, NoValue, "none")) IN
          /\ last' = out.res
          /\ files' = out.files
          /\ UNCHANGED outside

(***************************************************************************)
(* GET /api/health, POST /api/backup, the 404 and the error handler        *)
(***************************************************************************)
\* GET /api/health: the payload has a status and a message, and no success.
Health ==
    /\ last' = [Answer(Request("HEALTH", "", "", NoValue, "none"), 200, FALSE, "",
                        NoValue, {}, {})
                 EXCEPT !.json = HealthPayload]
    /\ UNCHANGED <<files, outside>>

\* POST /api/backup: every file of the data directory is copied to a new
\* directory under backups/, or mkdir, readdir or copyFile raises (fault).
Backup ==
    \E fault \in {"none", "backup"} :
       /\ last' = IF fault = "none"
                  THEN Answer(Request("BACKUP", "", "", NoValue, fault), 200, TRUE, "",
                              NoValue, {f \in Filenames : files[f] # Absent}, {})
                  ELSE Answer(Request("BACKUP", "", "", NoValue, fault), 500, FALSE,
                              "Failed to create backup", NoValue, {}, {})
       /\ UNCHANGED <<files, outside>>

\* app.use('/api/*'): a request no route matched, such as GET /api/menu.
UnmatchedRoute ==
    /\ last' = Answer(Request("OTHER", "", "", NoValue, "none"), 404, FALSE,
                      "API endpoint not found", NoValue, {}, {})
    /\ UNCHANGED <<files, outside>>

\* The global error handler: express.json passes it the error of a body
\* that is not JSON, before any route runs.
MalformedBody ==
    \E filename \in Filenames :
       /\ last' = Answer(Request("POST", filename, "", NoValue, "body"), 500, FALSE,
                         "Internal server error", NoValue, {}, {})
       /\ UNCHANGED <<files, outside>>

Next ==
    \/ GetAllData \/ GetData \/ PostData \/ PutItem \/ DeleteItem
    \/ Health \/ Backup \/ UnmatchedRoute \/ MalformedBody

Spec == Init /\ [][Next]_vars

(***************************************************************************)
(* Two requests at a time.  A handler runs to its next await, and another  *)
(* request's handler may run before the awaited fs call has finished.      *)
(* fs.writeFile(path, text) is open(path, 'w'), which empties the file,    *)
(* then write(fd, text) at the descriptor's own offset 0, then close: of   *)
(* two writeFile calls that both opened the file before either wrote, the  *)
(* second write replaces the first len(text) characters and leaves what    *)
(* the first wrote past them ('It is unsafe to use fsPromises.writeFile()  *)
(* multiple times on the same file without waiting for the promise to be   *)
(* settled', Node.js fs documentation).                                    *)
(***************************************************************************)
\* The number of characters of String(n).
RECURSIVE DigitCount(_)
DigitCount(n) ==
    IF n < 0 THEN 1 + DigitCount(-n)
    ELSE IF n < 10 THEN 1 ELSE 1 + DigitCount(n \div 10)

\* The sum of lens[x] over the x of S.
RECURSIVE SumOf(_, _)
SumOf(lens, S) ==
    IF S = {} THEN 0
    ELSE LET x == CHOOSE y \in S : TRUE IN lens[x] + SumOf(lens, S \ {x})

\* JSON.stringify(v, null, 2).length for a v nested depth levels deep: a
\* non-empty array or object has each member on a line of its own, indented
\* by two spaces per level, and its closing bracket on a last line.
RECURSIVE TextLength(_, _)
TextLength(v, depth) ==
    CASE v.t = "num" -> DigitCount(v.n)
      [] v.t = "str" -> Len(v.s) + 2
      [] v.t = "bool" -> IF v.n = 1 THEN 4 ELSE 5
      [] v.t = "arr" ->
           IF v.a = <<>> THEN 2
           ELSE LET lens == [i \in DOMAIN v.a |-> TextLength(v.a[i], depth + 1)] IN
                2 + 2 * Len(v.a) * (depth + 2) + SumOf(lens, DOMAIN v.a) + 2 * depth
      [] v.t = "obj" ->
           IF DOMAIN v.o = {} THEN 2
           ELSE LET lens == [k \in DOMAIN v.o |->
                               Len(k) + 4 + TextLength(v.o[k], depth + 1)] IN
                2 + 2 * Cardinality(DOMAIN v.o) * (depth + 2)
                  + SumOf(lens, DOMAIN v.o) + 2 * depth
      [] OTHER -> 4

\* The number of characters of a file: none for a missing or an emptied file.
FileLength(content) ==
    CASE content.t \in {"absent", "truncated"} -> 0
      [] content.t = "garbled" -> content.n
      [] OTHER -> TextLength(content, 0)

\* write(fd, text) at offset 0 of a file that holds content: the text, and
\* after it what the file held past the length of the text.
Overwrite(content, text) ==
    IF FileLength(content) > TextLength(text, 0)
    THEN Garbled(FileLength(content))
    ELSE text

\* The requests of the model that come two at a time.
RaceRequests ==
    {Request("POST", "menu.json", "", body, "none") :
        body \in {MenuDoc(<<Latte>>), MenuDoc(<<>>), Obj([categories |-> Arr(<<>>)])}}
    \cup {Request("POST", "specials.json", "", SpecialsDoc(<<>>), "none")}
    \cup {Request("PUT", "menu.json", id, updateData, "none") :
            id \in {"1", "2"}, updateData \in Patches}
    \cup {Request("DELETE", "menu.json", id, NoValue, "none") : id \in {"1", "2"}}

\* The handler of req up to its fs.writeFile call: the response it will send
\* and the directory as the write would leave it.
Handle(req) ==
    CASE req.op = "POST" -> PostOutcome(req)
      [] req.op = "PUT" -> PutOutcome(req)
      [] req.op = "DELETE" -> DeleteOutcome(req)

\* A request arrives and its handler runs up to fs.writeFile, or to the
\* response when it answers without a write.
Begin(slot) ==
    /\ pending[slot].pc = "idle"
    /\ \E req \in RaceRequests :
          LET out == Handle(req) IN
          IF out.res.writes = {}
          THEN /\ last' = out.res
               /\ UNCHANGED <<files, pending, order>>
               /\ UNCHANGED <<browser, panel, awaited>>
          ELSE /\ pending' = [pending EXCEPT ![slot] =
                                [req |-> req, pc |-> "open",
                                 text |-> out.files[req.filename], res |-> out.res]]
               /\ order' = Append(order, <<slot, "begin">>)
               /\ UNCHANGED <<files, last>>
               /\ UNCHANGED <<browser, panel, awaited>>

\* fs.writeFile opens the file with flag 'w': the file is empty.
OpenFile(slot) ==
    /\ pending[slot].pc = "open"
    /\ files' = [files EXCEPT ![pending[slot].req.filename] = Truncated]
    /\ pending' = [pending EXCEPT ![slot].pc = "write"]
    /\ order' = Append(order, <<slot, "open">>)
    /\ UNCHANGED last
    /\ UNCHANGED <<browser, panel, awaited>>

\* fs.writeFile writes the text, the await returns and the handler answers.
WriteText(slot) ==
    /\ pending[slot].pc = "write"
    /\ files' = [files EXCEPT ![pending[slot].req.filename] =
                   Overwrite(files[pending[slot].req.filename], pending[slot].text)]
    /\ pending' = [pending EXCEPT ![slot].pc = "done"]
    /\ order' = Append(order, <<slot, "write">>)
    /\ last' = pending[slot].res
    /\ UNCHANGED <<browser, panel, awaited>>

\* The answered requests are forgotten once no request is pending.
Settle ==
    /\ \A slot \in Slots : pending[slot].pc \in {"idle", "done"}
    /\ \E slot \in Slots : pending[slot].pc = "done"
    /\ pending' = [slot \in Slots |-> Idle]
    /\ order' = <<>>
    /\ UNCHANGED <<files, last>>
    /\ UNCHANGED <<browser, panel, awaited>>

RaceInit ==
    /\ files = Seed
    /\ last = NoAnswer
    /\ InitOutside

RaceNext ==
    \/ \E slot \in Slots : Begin(slot)
    \/ \E slot \in Slots : OpenFile(slot)
    \/ \E slot \in Slots : WriteText(slot)
    \/ Settle

SpecRace == RaceInit /\ [][RaceNext]_vars

(***************************************************************************)
(* DataAPI: the client of the API in each page (the admin panel and the    *)
(* main website), with its cache and the localStorage fallback.  A call    *)
(* runs to its end before the next one starts; last is the response it was *)
(* given, if any.                                                          *)
(***************************************************************************)
\* this.cacheTime = 30 * 1000, and the 60 * 60 * 1000 of getFromLocalStorage.
cacheTime == 30000
StorageTime == 3600000

\* The times the model lets pass between two calls, and how many of them.
Waits == {15000, 3585000}
MaxWaits == 2
WaitsSoFar == (now \div 3585000) + ((now % 3585000) \div 15000)

\* The documents the admin tab saves, the ids and the patch it updates with.
SavedDocs == {MenuDoc(<<Latte>>), Obj([categories |-> Arr(<<>>)])}

\* A cache entry, and the two items saveToLocalStorage sets.
Entry(data, timestamp) == [data |-> data, timestamp |-> timestamp]

\* cached && (Date.now() - cached.timestamp <= this.cacheTime)
Fresh_Inclusive(cached) == cached # NoEntry /\ now - cached.timestamp <= cacheTime

\* cached && (Date.now() - cached.timestamp < this.cacheTime)
Fresh(cached) == cached # NoEntry /\ now - cached.timestamp < cacheTime

\* saveToLocalStorage(filename, data): the text of the data and Date.now().
saveToLocalStorage(filename, data) ==
    [localStorage EXCEPT ![filename] = Entry(JSONStringify(data), now)]

\* getFromLocalStorage(filename): the parsed item when it is there and less
\* than an hour old, null otherwise.
getFromLocalStorage(filename) ==
    LET item == localStorage[filename] IN
    IF item # NoEntry /\ now - item.timestamp < StorageTime
    THEN JSONParse(item.data)
    ELSE Null

\* this.cache.delete(filename) that leaves the entry where it is.
Evict_Keep(tab, filename) == cache

\* this.cache.delete(filename)
Evict(tab, filename) == [cache EXCEPT ![tab][filename] = NoEntry]

\* response.ok and result.success of the response to a request that reached
\* the server.
Succeeded(up, res) == up /\ res.status = 200 /\ res.success

\* fetchData(filename)
fetchData(tab, filename, up) ==
    LET cached == cache[tab][filename]
        res == GetResponse(Request("GET", filename, "", NoValue, "none"))
        fallbackData == getFromLocalStorage(filename)
    IN
    IF Fresh(cached)
    THEN /\ ret' = Returned(tab, "fetchData", filename, "", NoValue, up, FALSE,
                            cached.data, FALSE, now)
         /\ last' = NoAnswer
         /\ UNCHANGED cache
    ELSE IF Succeeded(up, res)
    THEN /\ cache' = [cache EXCEPT ![tab][filename] = Entry(res.data, now)]
         /\ ret' = Returned(tab, "fetchData", filename, "", NoValue, up, TRUE,
                            res.data, TRUE, now)
         /\ last' = res
    ELSE /\ ret' = Returned(tab, "fetchData", filename, "", NoValue, up, TRUE,
                            IF Truthy(fallbackData) THEN fallbackData ELSE Null,
                            FALSE, now)
         /\ last' = IF up THEN res ELSE NoAnswer
         /\ UNCHANGED cache

FetchData ==
    \E tab \in Tabs, filename \in ClientFiles, up \in BOOLEAN :
       /\ fetchData(tab, filename, up)
       /\ UNCHANGED <<files, now, localStorage, racing, awaited, panel>>

\* saveData(filename, data): the effect on the server, the cache and the
\* localStorage, and the result returned.
saveDataOutcome(tab, filename, data, up) ==
    LET out == PostOutcome(Request("POST", filename, "", JSONStringify(data), "none")) IN
    [files |-> IF up THEN out.files ELSE files,
     cache |-> IF up /\ out.res.success THEN Evict(tab, filename) ELSE cache,
     localStorage |-> saveToLocalStorage(filename, data),
     ret |-> Returned(tab, "saveData", filename, "", data, up, TRUE, NoValue,
                      up /\ out.res.success, now),
     res |-> IF up THEN out.res ELSE NoAnswer]

saveData(tab, filename, data, up) ==
    LET out == saveDataOutcome(tab, filename, data, up) IN
    /\ files' = out.files
    /\ last' = out.res
    /\ cache' = out.cache
    /\ localStorage' = out.localStorage
    /\ ret' = out.ret

SaveData ==
    \E data \in SavedDocs, up \in BOOLEAN :
       /\ saveData("admin", "menu.json", data, up)
       /\ UNCHANGED <<now, racing, awaited, panel>>

\* updateItem(filename, id, updateData): the result, or the error rethrown.
updateItem(tab, filename, id, updateData, up) ==
    LET out == PutOutcome(Request("PUT", filename, id, JSONStringify(updateData), "none")) IN
    /\ files' = IF up THEN out.files ELSE files
    /\ last' = IF up THEN out.res ELSE NoAnswer
    /\ cache' = IF up /\ out.res.success THEN Evict(tab, filename) ELSE cache
    /\ ret' = Returned(tab, "updateItem", filename, id, updateData, up, TRUE, NoValue,
                       up /\ out.res.success, now)

UpdateItem ==
    \E id \in {"2"}, updateData \in Patches, up \in BOOLEAN :
       /\ updateItem("admin", "menu.json", id, updateData, up)
       /\ UNCHANGED <<now, localStorage, racing, awaited, panel>>

\* deleteItem(filename, id): the result, or the error rethrown.
deleteItem(tab, filename, id, up) ==
    LET out == DeleteOutcome(Request("DELETE", filename, id, NoValue, "none")) IN
    /\ files' = IF up THEN out.files ELSE files
    /\ last' = IF up THEN out.res ELSE NoAnswer
    /\ cache' = IF up /\ out.res.success THEN Evict(tab, filename) ELSE cache
    /\ ret' = Returned(tab, "deleteItem", filename, id, NoValue, up, TRUE, NoValue,
                       up /\ out.res.success, now)

DeleteItemCall ==
    \E id \in {"2"}, up \in BOOLEAN :
       /\ deleteItem("admin", "menu.json", id, up)
       /\ UNCHANGED <<now, localStorage, racing, awaited, panel>>

\* clearCache(): refreshData of the main website every 30 seconds, and the
\* refresh buttons and refreshMainWebsite of the admin panel.
ClearCache ==
    \E tab \in Tabs :
       /\ cache' = [cache EXCEPT ![tab] = [f \in ClientFiles |-> NoEntry]]
       /\ ret' = Returned(tab, "clearCache", "", "", NoValue, FALSE, FALSE, NoValue,
                          FALSE, now)
       /\ UNCHANGED <<files, last, now, localStorage, racing, awaited, panel>>

\* Time passes.
Wait ==
    /\ WaitsSoFar < MaxWaits
    /\ \E ms \in Waits : now' = now + ms
    /\ UNCHANGED <<files, last, cache, localStorage, ret, racing, awaited, panel>>

\* The server has the seed files, or lacks menu.json; both pages are open.
ClientInit ==
    /\ files \in {Seed, [Seed EXCEPT !["menu.json"] = Absent]}
    /\ last = NoAnswer
    /\ InitOutside

ClientNext ==
    \/ FetchData \/ SaveData \/ UpdateItem \/ DeleteItemCall
    \/ ClearCache \/ Wait

SpecClient == ClientInit /\ [][ClientNext]_vars

(***************************************************************************)
(* AdminPanel: the admin page, with the DataAPI of its tab.  A method runs *)
(* to its end before the next one starts; last and ret are the response it *)
(* was given and the DataAPI call it made last, if any.  The text of the   *)
(* JSON editor and the fields of the forms are inputs; the tables are not  *)
(* modelled.                                                               *)
(***************************************************************************)
PanelFiles == {"menu.json", "specials.json", "events.json", "contact.json"}

\* The largest id the model lets getNextId assign.
MaxId == 2

\* filename.replace('.json', '')
KeyOf(filename) == CHOOSE file \in DOMAIN FileOf : FileOf[file] = filename

\* this.api.clearCache() of the admin page, on the cache c.
Cleared(c) == [c EXCEPT !["admin"] = [f \in DOMAIN c["admin"] |-> NoEntry]]

\* getNextId(items)
getNextId_Max(items) ==
    IF ~Truthy(items) \/ Len(items.a) = 0 THEN 1
    ELSE LET ids == {Get(items.a[i], "id").n : i \in DOMAIN items.a} IN
         CHOOSE maxId \in ids : \A n \in ids : n <= maxId

getNextId(items) ==
    IF ~Truthy(items) \/ Len(items.a) = 0 THEN 1
    ELSE LET ids == {Get(items.a[i], "id").n : i \in DOMAIN items.a} IN
         (CHOOSE maxId \in ids : \A n \in ids : n <= maxId) + 1

\* What fetchData(filename) of the admin page returns when its cache is
\* empty: the document of the server, or the localStorage fallback, or null.
Fetched(filename, up) ==
    LET res == GetResponse(Request("GET", filename, "", NoValue, "none"))
        fallbackData == getFromLocalStorage(filename)
    IN
    IF Succeeded(up, res) THEN res.data
    ELSE IF Truthy(fallbackData) THEN fallbackData ELSE Null

\* loadDataIndividually(), called with an empty cache: fetchData of each of
\* the four files; a document that came replaces the one of data.
loadDataIndividually(data, up) ==
    LET res == [f \in PanelFiles |-> GetResponse(Request("GET", f, "", NoValue, "none"))] IN
    /\ currentData' = Obj([file \in DOMAIN FileOf |->
                             IF Truthy(Fetched(FileOf[file], up))
                             THEN Fetched(FileOf[file], up)
                             ELSE Get(data, file)])
    /\ cache' = [cache EXCEPT !["admin"] =
                   [f \in PanelFiles |->
                      IF Succeeded(up, res[f]) THEN Entry(res[f].data, now) ELSE NoEntry]]
    /\ last' = IF up THEN res["contact.json"] ELSE NoAnswer
    /\ ret' = Returned("admin", "fetchData", "contact.json", "", NoValue, up, TRUE,
                       Fetched("contact.json", up), Succeeded(up, res["contact.json"]), now)

\* The admin page is opened or reloaded: new AdminPanel() and init(), whose
\* loadAllData() takes the documents from GET /api/data, and from
\* loadDataIndividually() when that request fails.
LoadPage ==
    \E up \in BOOLEAN :
       LET res == GetAllResponse("none") IN
       /\ editingItem' = Null
       /\ editingSpecial' = Null
       /\ editingEvent' = Null
       /\ called' = Called("init", "", NoValue, Null, FALSE, FALSE)
       /\ IF up /\ res.success /\ Truthy(res.data)
          THEN /\ currentData' = res.data
               /\ cache' = Cleared(cache)
               /\ last' = res
               /\ ret' = NoCall
          ELSE loadDataIndividually(
                  Obj([file \in {"menu", "specials", "events", "contact"} |-> Null]), up)
       /\ UNCHANGED <<files, now, localStorage, racing, awaited>>

\* refreshMenuData(), refreshSpecialsData(), refreshEventsData()
RefreshData ==
    \E up \in BOOLEAN :
       /\ loadDataIndividually(currentData, up)
       /\ called' = Called("refreshData", "", NoValue, Null, FALSE, FALSE)
       /\ UNCHANGED <<files, now, localStorage, racing, awaited,
                      editingItem, editingSpecial, editingEvent>>

\* The contact forms of the model: a complete one, one without an address,
\* and one without a facebook link, which the form does not require.
ContactForms ==
    {Obj([Contact(Hours, Social).o EXCEPT !["phone"] = Str("777")]),
     Obj([Contact(Hours, Social).o EXCEPT !["address"] = Str("")]),
     Contact(Hours, Obj([Social.o EXCEPT !["facebook"] = Str("")]))}

\* The section of currentData a save*() works on, and its items.
Section(filename) == Get(currentData, KeyOf(filename))
Entries(filename) == Get(Section(filename), ItemsKey(filename))

\* A save*() or edit*() raises a TypeError before it changed anything: the
\* section was not loaded, or it has no item array or a null item.
PanelThrows(filename) ==
    IF ~Truthy(Section(filename)) \/ ~IsArray(Entries(filename)) THEN TRUE
    ELSE \E i \in DOMAIN Entries(filename).a : Entries(filename).a[i].t = "null"

\* The model lets a save*() assign the ids up to MaxId, in arrays of fewer
\* than MaxId items.
IdAllowed(filename, editing) ==
    IF Truthy(editing) \/ PanelThrows(filename) THEN TRUE
    ELSE /\ getNextId(Entries(filename)) <= MaxId
         /\ Len(Entries(filename).a) < MaxId

\* The id of the entity of a form.
IdFor(filename, editing) ==
    IF Truthy(editing) THEN Get(editing, "id").n ELSE getNextId(Entries(filename))

\* The section after the entity replaced the one being edited, where that is
\* still there, or was pushed.
Changed(filename, editing, entityData) ==
    LET items == Entries(filename).a
        index == findIndex(items, Get(editing, "id"))
    IN
    IF Truthy(editing)
    THEN IF index # 0
         THEN WithItems(Section(filename), ItemsKey(filename),
                        [items EXCEPT ![index] = entityData])
         ELSE Section(filename)
    ELSE WithItems(Section(filename), ItemsKey(filename), Append(items, entityData))

\* A method that made no saveData and left the documents as they were.
NoSave(call, filename, data, editing) ==
    /\ called' = Called(call, filename, data, editing, FALSE, FALSE)
    /\ last' = NoAnswer
    /\ ret' = NoCall
    /\ UNCHANGED <<files, cache, localStorage, currentData>>

\* result.success of the saveData a save*() makes.
Saved(filename, section, up) ==
    saveDataOutcome("admin", filename, section, up).ret.success

\* The end of a save*(): the section was changed in place, saveData sends
\* it, and refreshMainWebsite() clears the cache when the result has success.
Submit(call, filename, section, editing, up) ==
    LET out == saveDataOutcome("admin", filename, section, up) IN
    /\ currentData' = Obj([currentData.o EXCEPT ![KeyOf(filename)] = section])
    /\ files' = out.files
    /\ last' = out.res
    /\ cache' = IF out.ret.success THEN Cleared(out.cache) ELSE out.cache
    /\ localStorage' = out.localStorage
    /\ ret' = out.ret
    /\ called' = Called(call, filename, section, editing, TRUE, out.ret.success)

\* The editing reference after a save*() that called saveData and never
\* resets its form.
EditingAfter_Keep(editing, success) == editing

\* The editing reference after a save*() that called saveData: reset*Form()
\* runs when the result has success.
EditingAfter(editing, success) == IF success THEN Null ELSE editing

\* saveMenuItem()
saveMenuItem ==
    \E name \in {"Tea", ""}, price \in {Num(300), Num(-5), NaN} :
       /\ IdAllowed("menu.json", editingItem)
       /\ IF PanelThrows("menu.json") \/ name = "" \/ ~Truthy(price) \/ price.n <= 0
          THEN /\ NoSave("saveMenuItem", "menu.json", NoValue, editingItem)
               /\ UNCHANGED editingItem
          ELSE LET itemData == MenuItem(IdFor("menu.json", editingItem), name, price)
                   section == Changed("menu.json", editingItem, itemData)
               IN \E up \in BOOLEAN :
                     /\ Submit("saveMenuItem", "menu.json", section, editingItem, up)
                     /\ editingItem' = EditingAfter(editingItem,
                                                    Saved("menu.json", section, up))
       /\ UNCHANGED <<now, racing, awaited, editingSpecial, editingEvent>>

\* saveSpecial()
saveSpecial ==
    \E discount \in {"20%", ""} :
       /\ IdAllowed("specials.json", editingSpecial)
       /\ IF PanelThrows("specials.json") \/ discount = ""
          THEN /\ NoSave("saveSpecial", "specials.json", NoValue, editingSpecial)
               /\ UNCHANGED editingSpecial
          ELSE LET specialData == Special(IdFor("specials.json", editingSpecial),
                                          Str(discount))
                   section == Changed("specials.json", editingSpecial, specialData)
               IN \E up \in BOOLEAN :
                     /\ Submit("saveSpecial", "specials.json", section, editingSpecial, up)
                     /\ editingSpecial' = EditingAfter(editingSpecial,
                                                       Saved("specials.json", section, up))
       /\ UNCHANGED <<now, racing, awaited, editingItem, editingEvent>>

\* saveEvent()
saveEvent ==
    \E tag \in {"jazz", ""} :
       /\ IdAllowed("events.json", editingEvent)
       /\ IF PanelThrows("events.json") \/ tag = ""
          THEN /\ NoSave("saveEvent", "events.json", NoValue, editingEvent)
               /\ UNCHANGED editingEvent
          ELSE LET eventData == Event(IdFor("events.json", editingEvent), Str(tag))
                   section == Changed("events.json", editingEvent, eventData)
               IN \E up \in BOOLEAN :
                     /\ Submit("saveEvent", "events.json", section, editingEvent, up)
                     /\ editingEvent' = EditingAfter(editingEvent,
                                                     Saved("events.json", section, up))
       /\ UNCHANGED <<now, racing, awaited, editingItem, editingSpecial>>

\* saveContact(), submitted when the contact document is loaded.
saveContact ==
    \E contactData \in ContactForms :
       /\ Truthy(Section("contact.json"))
       /\ IF \/ \E k \in {"address", "phone", "email"} : ~Truthy(Get(contactData, k))
             \/ \E k \in {"weekdays", "weekends"} :
                   ~Truthy(Get(Get(contactData, "workingHours"), k))
          THEN NoSave("saveContact", "contact.json", NoValue, Null)
          ELSE \E up \in BOOLEAN :
                  Submit("saveContact", "contact.json", contactData, Null, up)
       /\ UNCHANGED <<now, racing, awaited, editingItem, editingSpecial, editingEvent>>

\* items.find(item => item.id === itemId), null for undefined.
Find(filename, itemId) ==
    LET items == Entries(filename).a
        index == findIndex(items, Num(itemId))
    IN IF index = 0 THEN Null ELSE items[index]

\* The ids of the rows whose Edit button the model presses.
EditIds == {1}

\* editMenuItem(itemId), editSpecial(specialId), editEvent(eventId)
editMenuItem ==
    \E itemId \in EditIds :
       /\ ~PanelThrows("menu.json")
       /\ Truthy(Find("menu.json", itemId))
       /\ editingItem' = Find("menu.json", itemId)
       /\ NoSave("editMenuItem", "menu.json", NoValue, editingItem)
       /\ UNCHANGED <<now, racing, awaited, editingSpecial, editingEvent>>

editSpecial ==
    \E specialId \in EditIds :
       /\ ~PanelThrows("specials.json")
       /\ Truthy(Find("specials.json", specialId))
       /\ editingSpecial' = Find("specials.json", specialId)
       /\ NoSave("editSpecial", "specials.json", NoValue, editingSpecial)
       /\ UNCHANGED <<now, racing, awaited, editingItem, editingEvent>>

editEvent ==
    \E eventId \in EditIds :
       /\ ~PanelThrows("events.json")
       /\ Truthy(Find("events.json", eventId))
       /\ editingEvent' = Find("events.json", eventId)
       /\ NoSave("editEvent", "events.json", NoValue, editingEvent)
       /\ UNCHANGED <<now, racing, awaited, editingItem, editingSpecial>>

\* resetMenuForm(), resetSpecialForm(), resetEventForm() of the Cancel buttons
resetMenuForm ==
    /\ editingItem' = Null
    /\ NoSave("resetMenuForm", "menu.json", NoValue, editingItem)
    /\ UNCHANGED <<now, racing, awaited, editingSpecial, editingEvent>>

resetSpecialForm ==
    /\ editingSpecial' = Null
    /\ NoSave("resetSpecialForm", "specials.json", NoValue, editingSpecial)
    /\ UNCHANGED <<now, racing, awaited, editingItem, editingEvent>>

resetEventForm ==
    /\ editingEvent' = Null
    /\ NoSave("resetEventForm", "events.json", NoValue, editingEvent)
    /\ UNCHANGED <<now, racing, awaited, editingItem, editingSpecial>>

\* The ids of the rows whose Delete button the model presses.
DeleteIds == {"1"}

\* items.filter(item => item.id !== itemId) of a delete*() that does not
\* wait for the server's answer.
Removed_Always(items, itemId, success) ==
    SelectSeq(items, LAMBDA item : ~StrictEquals(Get(item, "id"), itemId))

\* The items after a delete*() that called deleteItem:
\* items.filter(item => item.id !== itemId) when the result had success.
Removed(items, itemId, success) ==
    IF success
    THEN SelectSeq(items, LAMBDA item : ~StrictEquals(Get(item, "id"), itemId))
    ELSE items

\* deleteMenuItem(itemId), deleteSpecial(specialId), deleteEvent(eventId) of
\* a row of the table: confirm(), then deleteItem of the DataAPI, the filter
\* and refreshMainWebsite().
deleteEntity(call, filename, id, confirmed, up, editing) ==
    LET out == DeleteOutcome(Request("DELETE", filename, id, NoValue, "none"))
        success == up /\ out.res.success
        items == Removed(Entries(filename).a, parseInt(id), success)
    IN
    /\ ~PanelThrows(filename)
    /\ Truthy(Find(filename, parseInt(id).n))
    /\ ~confirmed => up
    /\ IF ~confirmed
       THEN NoSave(call, filename, parseInt(id), editing)
       ELSE /\ files' = IF up THEN out.files ELSE files
            /\ last' = IF up THEN out.res ELSE NoAnswer
            /\ cache' = IF success THEN Cleared(Evict("admin", filename)) ELSE cache
            /\ ret' = Returned("admin", "deleteItem", filename, id, NoValue, up, TRUE,
                               NoValue, success, now)
            /\ currentData' = Obj([currentData.o EXCEPT ![KeyOf(filename)] =
                                     WithItems(Section(filename), ItemsKey(filename), items)])
            /\ called' = Called(call, filename, parseInt(id), editing, TRUE, success)
            /\ UNCHANGED localStorage
    /\ UNCHANGED <<now, racing, awaited, editingItem, editingSpecial, editingEvent>>

deleteMenuItem ==
    \E itemId \in DeleteIds, confirmed \in BOOLEAN, up \in BOOLEAN :
       deleteEntity("deleteMenuItem", "menu.json", itemId, confirmed, up, editingItem)

deleteSpecial ==
    \E specialId \in DeleteIds, confirmed \in BOOLEAN, up \in BOOLEAN :
       deleteEntity("deleteSpecial", "specials.json", specialId, confirmed, up,
                    editingSpecial)

deleteEvent ==
    \E eventId \in DeleteIds, confirmed \in BOOLEAN, up \in BOOLEAN :
       deleteEntity("deleteEvent", "events.json", eventId, confirmed, up, editingEvent)

\* validateJSON that looks for the events array in a specials document.
validateJSON_WrongKey(filename, data) ==
    CASE filename = "menu.json" ->
           IF ~Truthy(Get(data, "categories")) \/ ~IsArray(Get(data, "categories"))
           THEN "Menu data must have a categories array"
           ELSE IF ~Truthy(Get(data, "items")) \/ ~IsArray(Get(data, "items"))
           THEN "Menu data must have an items array"
           ELSE NoError
      [] filename = "specials.json" ->
           IF ~Truthy(Get(data, "events")) \/ ~IsArray(Get(data, "events"))
           THEN "Specials data must have a specials array"
           ELSE NoError
      [] filename = "events.json" ->
           IF ~Truthy(Get(data, "events")) \/ ~IsArray(Get(data, "events"))
           THEN "Events data must have an events array"
           ELSE NoError
      [] filename = "contact.json" ->
           IF \E k \in {"address", "phone", "email", "workingHours", "socialMedia"} :
                 ~Truthy(Get(data, k))
           THEN "Contact data is incomplete"
           ELSE NoError
      [] OTHER -> NoError

\* validateJSON(filename, data): the message, NoError for null.
validateJSON(filename, data) ==
    CASE filename = "menu.json" ->
           IF ~Truthy(Get(data, "categories")) \/ ~IsArray(Get(data, "categories"))
           THEN "Menu data must have a categories array"
           ELSE IF ~Truthy(Get(data, "items")) \/ ~IsArray(Get(data, "items"))
           THEN "Menu data must have an items array"
           ELSE NoError
      [] filename = "specials.json" ->
           IF ~Truthy(Get(data, "specials")) \/ ~IsArray(Get(data, "specials"))
           THEN "Specials data must have a specials array"
           ELSE NoError
      [] filename = "events.json" ->
           IF ~Truthy(Get(data, "events")) \/ ~IsArray(Get(data, "events"))
           THEN "Events data must have an events array"
           ELSE NoError
      [] filename = "contact.json" ->
           IF \E k \in {"address", "phone", "email", "workingHours", "socialMedia"} :
                 ~Truthy(Get(data, k))
           THEN "Contact data is incomplete"
           ELSE NoError
      [] OTHER -> NoError

\* The documents the JSON editor of the model holds, per file: what
\* JSON.parse made of its text.
EditorDocs(filename) ==
    CASE filename = "menu.json" ->
           {MenuDoc(<<MenuItem(-1, "Decaf", Num(400))>>), MenuDoc(<<Latte, Nameless>>),
            Obj([items |-> Arr(<<Latte>>)])}
      [] filename = "specials.json" ->
           {SpecialsDoc(<<Special(1, Str("10%"))>>), SpecialsDoc(<<Special(1, Num(0))>>),
            Arr(<<>>)}
      [] filename = "events.json" ->
           {EventsDoc(<<Event(1, Str("music"))>>), EventsDoc(<<Event(1, Str(""))>>),
            Arr(<<>>)}
      [] filename = "contact.json" ->
           {Contact(Hours, Social), Contact(Str("8-20"), Social), Obj(<<>>)}

\* saveJSON(): the editor holds a document of a file the server has.
saveJSON ==
    \E filename \in PanelFiles :
       \E jsonData \in EditorDocs(filename) :
          /\ files[filename] # Absent
          /\ IF validateJSON(filename, jsonData) # NoError
             THEN NoSave("saveJSON", filename, jsonData, Null)
             ELSE \E up \in BOOLEAN :
                  LET out == saveDataOutcome("admin", filename, jsonData, up) IN
                  /\ currentData' =
                        IF out.ret.success /\ Truthy(Section(filename))
                        THEN Obj([currentData.o EXCEPT ![KeyOf(filename)] = jsonData])
                        ELSE currentData
                  /\ files' = out.files
                  /\ last' = out.res
                  /\ cache' = IF out.ret.success THEN Cleared(out.cache) ELSE out.cache
                  /\ localStorage' = out.localStorage
                  /\ ret' = out.ret
                  /\ called' = Called("saveJSON", filename, jsonData, Null, TRUE,
                                      out.ret.success)
          /\ UNCHANGED <<now, racing, awaited, editingItem, editingSpecial, editingEvent>>

\* The deployments of the model have one of the four seed files; the admin
\* page was just opened.
AdminInit ==
    /\ \E present \in PanelFiles :
          files = [f \in Filenames |-> IF f = present THEN Seed[f] ELSE Absent]
    /\ last = NoAnswer
    /\ InitRacing
    /\ now = 0
    /\ cache = [tab \in Tabs |-> [f \in PanelFiles |-> NoEntry]]
    /\ localStorage = [f \in PanelFiles |-> NoEntry]
    /\ ret = NoCall
    /\ InitPanel
    /\ InitAwaited

AdminNext ==
    \/ LoadPage \/ RefreshData
    \/ saveMenuItem \/ saveSpecial \/ saveEvent \/ saveContact
    \/ editMenuItem \/ editSpecial \/ editEvent
    \/ resetMenuForm \/ resetSpecialForm \/ resetEventForm
    \/ deleteMenuItem \/ deleteSpecial \/ deleteEvent
    \/ saveJSON

SpecAdmin == AdminInit /\ [][AdminNext]_vars

(***************************************************************************)
(* DataAPI with its awaits.  A method that calls fetch() stops at the      *)
(* await: the request is on its way, the server handles it, and the method *)
(* goes on when the response arrives.  The calls of a tab overlap, and the *)
(* responses arrive in any order.                                          *)
(***************************************************************************)
\* The most calls that wait for their response at a time.
MaxInFlight == 2

\* A call that waits at its await fetch(): the method and its data, the
\* request, sent or answered, and the response of the server.
Flight(call, data, req, pc, res) ==
    [data |-> data, req |-> req, pc |-> pc, call |-> call, res |-> res]

\* The methods that write.
Writes == {"saveData", "updateItem", "deleteItem"}

\* The method stops at await fetch(...).  The model starts no call whose
\* request is that of a call in flight.
Awaits(c) ==
    /\ Cardinality(inflight) < MaxInFlight
    /\ \A d \in inflight : d.req # c.req
    /\ inflight' = inflight \cup {c}

\* fetchData(filename) up to its await: the cached data when they are fresh.
fetchDataCalled ==
    \E filename \in ClientFiles :
       LET cached == cache["admin"][filename] IN
       /\ IF Fresh(cached)
          THEN /\ ret' = Returned("admin", "fetchData", filename, "", NoValue, TRUE,
                                  FALSE, cached.data, FALSE, now)
               /\ UNCHANGED inflight
          ELSE /\ Awaits(Flight("fetchData", NoValue,
                                Request("GET", filename, "", NoValue, "none"),
                                "sent", NoAnswer))
               /\ UNCHANGED ret
       /\ UNCHANGED <<files, last, now, cache, localStorage, racing, panel, page>>

\* saveData(filename, data) up to its await.
saveDataCalled ==
    \E data \in SavedDocs :
       /\ Awaits(Flight("saveData", data,
                        Request("POST", "menu.json", "", JSONStringify(data), "none"),
                        "sent", NoAnswer))
       /\ UNCHANGED <<files, last, browser, racing, panel, page>>

\* updateItem(filename, id, updateData) up to its await.
updateItemCalled ==
    \E id \in {"2"}, updateData \in Patches :
       /\ Awaits(Flight("updateItem", updateData,
                        Request("PUT", "menu.json", id, JSONStringify(updateData), "none"),
                        "sent", NoAnswer))
       /\ UNCHANGED <<files, last, browser, racing, panel, page>>

\* deleteItem(filename, id) up to its await.
deleteItemCalled ==
    \E id \in {"2"} :
       /\ Awaits(Flight("deleteItem", NoValue,
                        Request("DELETE", "menu.json", id, NoValue, "none"),
                        "sent", NoAnswer))
       /\ UNCHANGED <<files, last, browser, racing, panel, page>>

\* The server handles the request of a call and answers.
ServerHandles ==
    \E c \in inflight :
       LET out == IF c.req.op = "GET"
                  THEN [files |-> files, res |-> GetResponse(c.req)]
                  ELSE Handle(c.req)
       IN /\ c.pc = "sent"
          /\ files' = out.files
          /\ last' = out.res
          /\ inflight' = (inflight \ {c}) \cup {[c EXCEPT !.pc = "answered", !.res = out.res]}
          /\ UNCHANGED <<racing, browser, panel, page>>

\* fetchData(filename) from the response on.
fetchDataReturns ==
    \E c \in inflight :
       LET filename == c.req.filename
           fallbackData == getFromLocalStorage(filename)
       IN /\ c.call = "fetchData" /\ c.pc = "answered"
          /\ inflight' = inflight \ {c}
          /\ IF Succeeded(TRUE, c.res)
             THEN /\ cache' = [cache EXCEPT !["admin"][filename] = Entry(c.res.data, now)]
                  /\ ret' = Returned("admin", "fetchData", filename, "", NoValue, TRUE,
                                     TRUE, c.res.data, TRUE, now)
             ELSE /\ ret' = Returned("admin", "fetchData", filename, "", NoValue, TRUE,
                                     TRUE, IF Truthy(fallbackData) THEN fallbackData ELSE Null,
                                     FALSE, now)
                  /\ UNCHANGED cache
          /\ UNCHANGED <<files, last, now, localStorage, racing, panel, page>>

\* saveData, updateItem and deleteItem from the response on: the cache entry
\* is deleted after success, and saveData writes the localStorage either way.
WriteReturns ==
    \E c \in inflight :
       LET filename == c.req.filename IN
       /\ c.call \in Writes /\ c.pc = "answered"
       /\ inflight' = inflight \ {c}
       /\ cache' = IF c.res.success THEN Evict("admin", filename) ELSE cache
       /\ localStorage' = IF c.call = "saveData"
                          THEN saveToLocalStorage(filename, c.data)
                          ELSE localStorage
       /\ ret' = Returned("admin", c.call, filename, c.req.id, c.data, TRUE, TRUE,
                          NoValue, c.res.success, now)
       /\ UNCHANGED <<files, last, now, racing, panel, page>>

\* The server has the seed files; the admin page is open.
AwaitInit ==
    /\ files = Seed
    /\ last = NoAnswer
    /\ InitOutside

AwaitNext ==
    \/ fetchDataCalled \/ saveDataCalled \/ updateItemCalled \/ deleteItemCalled
    \/ ServerHandles
    \/ fetchDataReturns \/ WriteReturns

SpecAwait == AwaitInit /\ [][AwaitNext]_vars

(***************************************************************************)
(* AdminPanel with its awaits: saveMenuItem() and deleteMenuItem() stop at *)
(* the await of their DataAPI call and go on when its response arrives,    *)
(* and the buttons of the page work in between.                            *)
(***************************************************************************)
\* saveMenuItem() with a valid form, up to the await of saveData: the item
\* is put into currentData.menu.items and the document is sent.
saveMenuItemCalled ==
    LET itemData == MenuItem(IdFor("menu.json", editingItem), "Tea", Num(300))
        section == Changed("menu.json", editingItem, itemData)
    IN /\ ~PanelThrows("menu.json")
       /\ IdAllowed("menu.json", editingItem)
       /\ currentData' = Obj([currentData.o EXCEPT !["menu"] = section])
       /\ Awaits(Flight("saveData", section,
                        Request("POST", "menu.json", "", JSONStringify(section), "none"),
                        "sent", NoAnswer))
       /\ called' = Called("saveMenuItem", "menu.json", section, editingItem, TRUE, FALSE)
       /\ UNCHANGED <<files, last, browser, racing, page,
                      editingItem, editingSpecial, editingEvent>>

\* saveData and saveMenuItem() from the response on.
saveMenuItemResumes ==
    \E c \in inflight :
       /\ c.call = "saveData" /\ c.pc = "answered"
       /\ inflight' = inflight \ {c}
       /\ cache' = IF c.res.success THEN Cleared(Evict("admin", "menu.json")) ELSE cache
       /\ localStorage' = saveToLocalStorage("menu.json", c.data)
       /\ ret' = Returned("admin", "saveData", "menu.json", "", c.data, TRUE, TRUE,
                          NoValue, c.res.success, now)
       /\ editingItem' = EditingAfter(editingItem, c.res.success)
       /\ called' = Called("saveMenuItem", "menu.json", c.data, editingItem, TRUE,
                           c.res.success)
       /\ UNCHANGED <<files, last, now, racing, page,
                      currentData, editingSpecial, editingEvent>>

\* deleteMenuItem(itemId), confirmed, up to the await of deleteItem.
deleteMenuItemCalled ==
    \E id \in {"1", "2"} :
       /\ ~PanelThrows("menu.json")
       /\ Truthy(Find("menu.json", parseInt(id).n))
       /\ Awaits(Flight("deleteItem", parseInt(id),
                        Request("DELETE", "menu.json", id, NoValue, "none"),
                        "sent", NoAnswer))
       /\ called' = Called("deleteMenuItem", "menu.json", parseInt(id), editingItem,
                           TRUE, FALSE)
       /\ UNCHANGED <<files, last, browser, racing, page,
                      currentData, editingItem, editingSpecial, editingEvent>>

\* deleteItem and deleteMenuItem(itemId) from the response on.
deleteMenuItemResumes ==
    \E c \in inflight :
       LET items == Removed(Entries("menu.json").a, c.data, c.res.success) IN
       /\ c.call = "deleteItem" /\ c.pc = "answered"
       /\ ~PanelThrows("menu.json")
       /\ inflight' = inflight \ {c}
       /\ cache' = IF c.res.success THEN Cleared(Evict("admin", "menu.json")) ELSE cache
       /\ ret' = Returned("admin", "deleteItem", "menu.json", c.req.id, NoValue, TRUE,
                          TRUE, NoValue, c.res.success, now)
       /\ currentData' = Obj([currentData.o EXCEPT !["menu"] =
                                WithItems(Section("menu.json"), "items", items)])
       /\ called' = Called("deleteMenuItem", "menu.json", c.data, editingItem, TRUE,
                           c.res.success)
       /\ UNCHANGED <<files, last, now, localStorage, racing, page,
                      editingItem, editingSpecial, editingEvent>>

\* The menu has the two seed items or the Latte alone; the admin page was
\* opened and init() has loaded the documents from GET /api/data.
AsyncInit ==
    /\ files \in {Seed, [Seed EXCEPT !["menu.json"] = MenuDoc(<<Latte>>)]}
    /\ last = NoAnswer
    /\ InitRacing /\ InitBrowser /\ InitAwaited
    /\ currentData = GetAllResponse("none").data
    /\ editingItem = Null
    /\ editingSpecial = Null
    /\ editingEvent = Null
    /\ called = Called("init", "", NoValue, Null, FALSE, FALSE)

AsyncNext ==
    \/ saveMenuItemCalled \/ saveMenuItemResumes
    \/ deleteMenuItemCalled \/ deleteMenuItemResumes
    \/ ServerHandles
    \/ editMenuItem \/ resetMenuForm

SpecAsync == AsyncInit /\ [][AsyncNext]_vars

(***************************************************************************)
(* The main website: CafeApp and its UIRenderer, whose api is a DataAPI.   *)
(* The admin page writes to the server in the meantime.                    *)
(***************************************************************************)
\* The methods of class DataAPI.
Methods ==
    {"fetchData", "saveData", "updateItem", "deleteItem", "saveToLocalStorage",
     "getFromLocalStorage", "clearCache", "checkHealth", "showToast"}

\* The method of this.api that the render*() of each section calls.
Getters ==
    [section \in Sections |->
       CASE section = "menu" -> "getMenuData"
         [] section = "specials" -> "getSpecialsData"
         [] section = "events" -> "getEventsData"
         [] section = "contact" -> "getContactData"]

\* this.api.getMenuData() and the like raise 'TypeError: ... is not a
\* function': the call of a property that is undefined.
RaisesTypeError(section) == Getters[section] \notin Methods

\* The 'Failed to load ...' message of a catch block.
Failed == Str("Failed to load")

\* What a section shows after its render*(), which found it showing shown.
\* The call of the getter raises inside the try, before the await: the catch
\* of renderMenu, renderSpecials and renderEvents writes the message into
\* the grid that was emptied, the catch of renderContact only logs.
render(section, shown) ==
    CASE RaisesTypeError(section) /\ section = "contact" -> shown
      [] RaisesTypeError(section) /\ section # "contact" -> Failed

\* refreshData(), every 30 seconds: clearCache() and the four render*().
refreshData ==
    /\ cache' = [cache EXCEPT !["public"] = [f \in DOMAIN cache["public"] |-> NoEntry]]
    /\ page' = [section \in Sections |-> render(section, page[section])]
    /\ ret' = Returned("public", "clearCache", "", "", NoValue, FALSE, FALSE, NoValue,
                       FALSE, now)
    /\ UNCHANGED <<files, last, now, localStorage, racing, panel, inflight>>

\* The server has the seed files, and new CafeApp() has run init(): the four
\* render*() and the setInterval of refreshData.
PublicInit ==
    /\ files = Seed
    /\ last = NoAnswer
    /\ InitRacing /\ InitBrowser /\ InitPanel
    /\ inflight = {}
    /\ page = [section \in Sections |-> render(section, NoValue)]

PublicNext ==
    \/ refreshData
    \/ SaveData \/ UpdateItem \/ DeleteItemCall
    \/ Wait

\* The timer of setInterval fires again and again.
SpecPublic == PublicInit /\ [][PublicNext]_vars /\ WF_vars(refreshData)

TypeOK ==
    /\ DOMAIN files = Filenames
    /\ last.op \in {"none", "GETALL", "GET", "POST", "PUT", "DELETE",
                    "HEALTH", "BACKUP", "OTHER"}
    /\ last.status \in {0, 200, 400, 404, 500}

(***************************************************************************)
(* Properties                                                              *)
(***************************************************************************)
\* The item array of a stored document.
ItemsOf(filename, content) == Get(content, ItemsKey(filename)).a

\* C1: a POST of a document that validateData accepts, followed directly by
\* a GET of the same filename whose read does not fail, is answered success
\* with data equal to the posted document.
C1_PostGetRoundTrip ==
    [][(/\ last.op = "POST" /\ last.status = 200
        /\ last'.op = "GET" /\ last'.filename = last.filename
        /\ last'.fault = "none")
       => (last'.status = 200 /\ last'.success /\ last'.data = last.body)]_vars

\* C2: a request whose filename does not match the pattern is answered 400
\* 'Invalid filename' by GET, POST, PUT and DELETE, and the handler read no
\* file and wrote no file.  (A request whose body is not JSON reaches no
\* handler.)
C2_InvalidFilename ==
    (last.op \in {"GET", "POST", "PUT", "DELETE"}
     /\ last.fault # "body"
     /\ ~MatchesFilenamePattern(last.filename))
    => /\ last.status = 400 /\ ~last.success
       /\ last.error = "Invalid filename"
       /\ last.reads = {} /\ last.writes = {}
       /\ files[last.filename] = Absent

C2_Witness ==
    /\ last.op = "PUT" /\ last.filename = "../menu.json"
    /\ last.status = 400 /\ last.reads = {}

\* C3: a successful PUT changes, in the stored file, only the fields named
\* in the patch, and only on one item, which had the requested id: the other
\* fields of that item, the other items, the order and the other top-level
\* keys of the document are what they were.
C3_PutChangesOnlyPatchedFields ==
    [][(last'.op = "PUT" /\ last'.status = 200)
       => LET f == last'.filename
              key == ItemsKey(f)
              before == ItemsOf(f, files[f])
              after == ItemsOf(f, files'[f])
              patched == DOMAIN last'.body.o
          IN /\ f \in ItemFiles
             /\ DOMAIN files'[f].o = DOMAIN files[f].o
             /\ \A k \in DOMAIN files[f].o \ {key} : files'[f].o[k] = files[f].o[k]
             /\ Len(after) = Len(before)
             /\ \E i \in DOMAIN before :
                   /\ before[i].o["id"] = parseInt(last'.id)
                   /\ \A j \in DOMAIN before \ {i} : after[j] = before[j]
                   /\ DOMAIN after[i].o = DOMAIN before[i].o \cup patched
                   /\ \A k \in DOMAIN before[i].o \ patched :
                         after[i].o[k] = before[i].o[k]
                   /\ \A k \in patched : after[i].o[k] = last'.body.o[k]]_vars

C3_Witness ==
    /\ last.op = "PUT" /\ last.status = 200 /\ last.filename = "menu.json"
    /\ last.id = "1"
    /\ Len(ItemsOf("menu.json", files["menu.json"])) = 2
    /\ ItemsOf("menu.json", files["menu.json"])[1].o["name"] = Str("")
    /\ ItemsOf("menu.json", files["menu.json"])[1].o["price"] = Num(450)
    /\ ItemsOf("menu.json", files["menu.json"])[2] = Mocha

\* C4: a successful DELETE removes exactly the item with the requested id:
\* afterwards no stored item has that id, the other items are there in their
\* previous order, and deletedItem is the removed item.
C4_DeleteRemovesExactlyThatItem ==
    [][(last'.op = "DELETE" /\ last'.status = 200)
       => LET f == last'.filename
              before == ItemsOf(f, files[f])
              after == ItemsOf(f, files'[f])
          IN /\ \A j \in DOMAIN after : Get(after[j], "id") # parseInt(last'.id)
             /\ \E i \in DOMAIN before :
                   /\ Get(before[i], "id") = parseInt(last'.id)
                   /\ after = Splice(before, i)
                   /\ last'.data = before[i]]_vars

\* C5: a PUT or DELETE on menu.json, specials.json or events.json whose id
\* is the id of no item of the file is answered 404 'Item not found', issues
\* no write and leaves every file as it was.
C5_UnknownIdIs404 ==
    [][(/\ last'.op \in {"PUT", "DELETE"}
        /\ last'.filename \in ItemFiles
        /\ files[last'.filename] # Absent
        /\ \A i \in DOMAIN ItemsOf(last'.filename, files[last'.filename]) :
              Get(ItemsOf(last'.filename, files[last'.filename])[i], "id")
                 # parseInt(last'.id))
       => /\ last'.status = 404 /\ ~last'.success
          /\ last'.error = "Item not found"
          /\ last'.writes = {}
          /\ files' = files]_vars

C5_Witness ==
    /\ last.op = "DELETE" /\ last.filename = "menu.json" /\ last.id = "2"
    /\ last.status = 404 /\ last.error = "Item not found"
    /\ files["menu.json"] = JSONStringify(MenuDoc(<<Latte>>))

\* The messages validateData has for a menu without a categories array or
\* without an items array.
MenuShapeMessages ==
    {"Menu data must have a categories array", "Menu data must have an items array"}

\* C6: a POST whose body validateData rejects with a message is answered 400
\* with that message as error, and every file is what it was before; for
\* menu.json a body whose categories or items is missing or not an array is
\* rejected with the message for that array.  (A request whose body is not
\* JSON reaches no handler.)
C6_RejectedPostLeavesFile ==
    [][(last'.op = "POST" /\ last'.fault # "body"
        /\ MatchesFilenamePattern(last'.filename))
       => LET f == last'.filename
              body == last'.body
              message == validateData(f, body)
          IN /\ message \notin {NoError, ThrowsTypeError}
                => /\ last'.status = 400 /\ ~last'.success
                   /\ last'.error = message
                   /\ files' = files
             /\ (/\ f = "menu.json"
                 /\ \/ Get(body, "categories").t # "arr"
                    \/ Get(body, "items").t # "arr")
                => /\ last'.status = 400
                   /\ last'.error \in MenuShapeMessages
                   /\ files' = files]_vars

C6_Witness ==
    /\ last.op = "POST" /\ last.filename = "menu.json"
    /\ last.body = Obj([categories |-> Arr(<<>>)])
    /\ last.status = 400
    /\ last.error = "Menu data must have an items array"
    /\ files["menu.json"] = Seed["menu.json"]

\* C7: GET /api/data is answered success whatever files are missing or
\* unreadable: under each of the four keys the data hold null for a file
\* that is missing or whose read failed, and the content of the file
\* otherwise.
C7_GetAllNullsMissing ==
    last.op = "GETALL"
    => /\ last.status = 200 /\ last.success
       /\ DOMAIN last.data.o = {"menu", "specials", "events", "contact"}
       /\ \A file \in {"menu", "specials", "events", "contact"} :
             last.data.o[file] =
                IF files[FileOf[file]] = Absent \/ last.fault = FileOf[file]
                THEN Null
                ELSE files[FileOf[file]]

C7_Witness ==
    /\ last.op = "GETALL" /\ last.status = 200 /\ last.fault = "none"
    /\ files["events.json"] = Absent
    /\ last.data.o["events"] = Null
    /\ last.data.o["menu"] # Null
    /\ last.data.o["specials"] # Null
    /\ last.data.o["contact"] # Null

\* C8: GET, PUT and DELETE of a well-formed filename that names no existing
\* file are answered 404, and 500 is the answer only to an I/O failure other
\* than a missing file.
C8_MissingFileIs404 ==
    (/\ last.op \in {"GET", "PUT", "DELETE"}
     /\ MatchesFilenamePattern(last.filename)
     /\ last.fault = "none")
    => /\ files[last.filename] = Absent => last.status = 404
       /\ last.status # 500

\* C9: the items of menu.json, specials.json and events.json have integer
\* ids, and no two items of one file share an id.
C9_UniqueIntegerIds ==
    \A f \in ItemFiles :
       files[f] # Absent
       => LET items == ItemsOf(f, files[f]) IN
          /\ \A i \in DOMAIN items : Get(items[i], "id").t = "num"
          /\ \A i, j \in DOMAIN items :
                i # j => Get(items[i], "id") # Get(items[j], "id")

\* C10: every stored document is one that validateData accepts: each item
\* has every required field of its schema, and none of them empty.
C10_StoredDocumentsValid ==
    \A f \in ItemFiles :
       files[f] # Absent => validateData(f, files[f]) = NoError

\* C11: the price of every menu item and of every special stored on disk is
\* a number greater than 0.
C11_PricesPositive ==
    \A f \in {"menu.json", "specials.json"} :
       files[f] # Absent
       => \A i \in DOMAIN ItemsOf(f, files[f]) :
             LET price == Get(ItemsOf(f, files[f])[i], "price") IN
             price.t = "num" /\ price.n > 0

\* The payload has a boolean success, and an error when success is false.
HasSuccessAndError(payload) ==
    /\ payload.t = "obj"
    /\ Get(payload, "success").t = "bool"
    /\ Get(payload, "success") = Bool(FALSE) => Get(payload, "error").t = "str"

\* C13 as stated: every response of every /api endpoint, GET /api/health
\* included, carries a boolean success, and an error whenever success is
\* false.
C13_EveryResponseHasSuccess ==
    last.op # "none" => HasSuccessAndError(last.json)

\* C13 as amended: every response of every /api endpoint other than GET
\* /api/health carries a boolean success, and an error whenever success is
\* false; GET /api/health answers { status: 'OK', message } without a success.
C13_ResponsesButHealthHaveSuccess ==
    /\ last.op \notin {"none", "HEALTH"} => HasSuccessAndError(last.json)
    /\ last.op = "HEALTH"
       => /\ DOMAIN last.json.o = {"status", "message"}
          /\ Get(last.json, "status") = Str("OK")

C13_Witness ==
    /\ last.op = "DELETE" /\ last.status = 500
    /\ files[last.filename] = Absent
    /\ Get(last.json, "success") = Bool(FALSE)
    /\ Get(last.json, "error") = Str("Failed to delete item")

\* C12: when two write requests on one filename both ran up to their write
\* before either opened the file for writing, both are answered success and
\* the file holds exactly the text of the request whose write came last.
C12_LastWriteWins ==
    (/\ Len(order) = 6
     /\ order[1][2] = "begin" /\ order[2][2] = "begin"
     /\ pending[1].req.filename = pending[2].req.filename)
    => /\ \A slot \in Slots : pending[slot].res.success
       /\ files[pending[1].req.filename] = pending[order[6][1]].text

\* C14: after a saveData of the admin panel that succeeded, the next
\* fetchData of the main website for that document, with the server in
\* reach, returns the saved content.
C14_SavedShowsImmediately ==
    [][(/\ ret.call = "saveData" /\ ret.tab = "admin" /\ ret.success
        /\ ret'.call = "fetchData" /\ ret'.tab = "public"
        /\ ret'.filename = ret.filename /\ ret'.up)
       => ret'.result = JSONStringify(ret.data)]_vars

\* The methods of DataAPI that write to the server.
WriteCalls == {"saveData", "updateItem", "deleteItem"}

\* C15: when saveData, updateItem or deleteItem of a tab completes with
\* success, that tab's cache has no entry for the filename, and the next
\* fetchData of the tab for the filename calls the server.
C15_WriteEvictsCache ==
    [][/\ (ret'.call \in WriteCalls /\ ret'.success)
          => cache'[ret'.tab][ret'.filename] = NoEntry
       /\ (/\ ret.call \in WriteCalls /\ ret.success
           /\ ret'.call = "fetchData" /\ ret'.tab = ret.tab
           /\ ret'.filename = ret.filename)
          => ret'.networked]_vars

C15_Witness ==
    /\ ret.call = "saveData" /\ ret.tab = "admin" /\ ret.success
    /\ ret.at = 15000
    /\ files["menu.json"] = MenuDoc(<<Latte>>)
    /\ cache["admin"]["menu.json"] = NoEntry
    /\ cache["public"]["menu.json"] = Entry(Seed["menu.json"], 0)

\* C16: fetchData returns without a call of the server only the data of a
\* cache entry stored less than 30 seconds before, and after a call that
\* failed it returns what localStorage holds of less than an hour, or null:
\* an entry of 30 seconds or more is not returned.
C16_CacheOnlyWhenFresh ==
    ret.call = "fetchData"
    => LET cached == cache[ret.tab][ret.filename]
           item == localStorage[ret.filename]
       IN /\ ~ret.networked
             => /\ cached # NoEntry
                /\ ret.at - cached.timestamp < 30000
                /\ ret.result = cached.data
          /\ (ret.networked /\ ~ret.success)
             => ret.result = IF item # NoEntry /\ ret.at - item.timestamp < 3600000
                             THEN item.data
                             ELSE Null

C16_Witness ==
    /\ ret.call = "fetchData" /\ ret.networked /\ ~ret.up
    /\ cache[ret.tab]["menu.json"] # NoEntry
    /\ ret.at - cache[ret.tab]["menu.json"].timestamp = 30000
    /\ ret.result = Null

\* C17: a fetchData whose call of the server fails, less than an hour after
\* a fetchData that got the document from the server, returns that document.
C17_FallbackIsLastKnown ==
    [][(/\ ret.call = "fetchData" /\ ret.success
        /\ ret'.call = "fetchData" /\ ret'.filename = ret.filename
        /\ ret'.networked /\ ~ret'.up
        /\ ret'.at - ret.at < 3600000)
       => ret'.result = ret.result]_vars

\* The save methods of the forms.
SaveCalls == {"saveMenuItem", "saveSpecial", "saveEvent", "saveContact"}

\* C18: a saveMenuItem, saveSpecial, saveEvent or saveContact whose saveData
\* did not report success (the server could not be reached, or it rejected
\* the document) leaves currentData as it was before the call.
C18_FailedSaveLeavesCurrentData ==
    [][(called'.call \in SaveCalls /\ ~called'.success)
       => currentData' = currentData]_vars

\* C19 as stated: saveJSON finds that validateJSON accepts its document
\* exactly when validateData of the server accepts it.
C19_EditorAcceptsExactlyWhatServerAccepts ==
    called.call = "saveJSON"
    => (called.submitted <=> validateData(called.filename, called.data) = NoError)

\* C19, amended: validateJSON accepts every document that validateData of
\* the server accepts, so saveJSON submits each of them.
C19_EditorAcceptsWhatServerAccepts ==
    (called.call = "saveJSON" /\ validateData(called.filename, called.data) = NoError)
    => called.submitted

\* saveJSON submitted a document that validateData accepts, and the server
\* stored it.
C19_Witness ==
    /\ called.call = "saveJSON"
    /\ called.filename = "contact.json"
    /\ validateData(called.filename, called.data) = NoError
    /\ called.submitted
    /\ called.success
    /\ files["contact.json"] = JSONStringify(called.data)

\* C20 as stated: after a save*() that called saveData, the editing
\* reference of its entity type is null.
C20_SubmittedSaveEndsIdle ==
    /\ (called.call = "saveMenuItem" /\ called.submitted) => editingItem = Null
    /\ (called.call = "saveSpecial" /\ called.submitted) => editingSpecial = Null
    /\ (called.call = "saveEvent" /\ called.submitted) => editingEvent = Null

\* C20, amended: a save*() that called saveData ends with the editing
\* reference of its entity type null when the result had success, and with
\* the editing reference it found when the result had none.
C20_SavedEndsIdle ==
    [][/\ (called'.call = "saveMenuItem" /\ called'.submitted)
          => editingItem' = IF called'.success THEN Null ELSE editingItem
       /\ (called'.call = "saveSpecial" /\ called'.submitted)
          => editingSpecial' = IF called'.success THEN Null ELSE editingSpecial
       /\ (called'.call = "saveEvent" /\ called'.submitted)
          => editingEvent' = IF called'.success THEN Null ELSE editingEvent]_vars

\* saveMenuItem() updated the item that was being edited, the server stored
\* the menu, and the form is idle.
C20_Witness ==
    /\ called.call = "saveMenuItem"
    /\ called.editing = 1
    /\ called.submitted
    /\ called.success
    /\ editingItem = Null
    /\ files["menu.json"] = MenuDoc(<<MenuItem(1, "Tea", Num(300)), Mocha>>)


\* C24: a POST, PUT or DELETE on /api/data/:filename, answered with success
\* or not, leaves the content of every file but the one it names as it was.
C24_OtherFilesUnchanged ==
    [][last'.op \in {"POST", "PUT", "DELETE"}
       => \A f \in Filenames \ {last'.filename} : files'[f] = files[f]]_vars

\* A POST replaced menu.json while specials.json, events.json and
\* contact.json were there, and they are the seed files still.
C24_Witness ==
    /\ last.op = "POST"
    /\ last.filename = "menu.json"
    /\ last.success
    /\ files["menu.json"] = MenuDoc(<<Mocha>>)
    /\ \A f \in {"specials.json", "events.json", "contact.json"} : files[f] = Seed[f]


\* C28: a document that fetchData returns from the localStorage fallback is
\* one the server accepted; a document that validateData rejects is none.
C28_FallbackOnlyAccepted ==
    (/\ ret.call = "fetchData"
     /\ ret.networked /\ ~ret.success
     /\ ret.result # Null)
    => validateData(ret.filename, ret.result) = NoError


\* The delete methods of the tables, and the save methods of the entity forms.
DeleteCalls == {"deleteMenuItem", "deleteSpecial", "deleteEvent"}
EntitySaves == {"saveMenuItem", "saveSpecial", "saveEvent"}

\* The item array of a section of the admin's documents.
ArrayOf(data, filename) == Get(Get(data, KeyOf(filename)), ItemsKey(filename)).a

\* C21: a delete*() whose confirmation was declined sends no request and
\* changes neither a file nor currentData; one whose deleteItem failed leaves
\* currentData as it was; one whose deleteItem had success removes the items
\* with that id from the array in currentData, and nothing else.
C21_DeleteRemovesAfterSuccess ==
    [][called'.call \in DeleteCalls
       => LET f == called'.filename IN
          /\ ~called'.submitted
             => (last' = NoAnswer /\ ret' = NoCall /\ files' = files
                 /\ currentData' = currentData)
          /\ (called'.submitted /\ ~called'.success) => currentData' = currentData
          /\ called'.success
             => /\ ArrayOf(currentData', f) =
                     SelectSeq(ArrayOf(currentData, f),
                               LAMBDA item : Get(item, "id") # called'.data)
                /\ \A g \in PanelFiles \ {f} :
                      Get(currentData', KeyOf(g)) = Get(currentData, KeyOf(g))]_vars

\* deleteMenuItem(1) was confirmed, the server removed the Latte from
\* menu.json, and the Mocha is what the admin's menu holds.
C21_Witness ==
    /\ called.call = "deleteMenuItem"
    /\ called.data = Num(1)
    /\ called.success
    /\ files["menu.json"] = MenuDoc(<<Mocha>>)
    /\ Get(currentData, "menu") = MenuDoc(<<Mocha>>)

\* C22: a save*() that creates an item and calls saveData appends one item
\* to the array, whose id is 1 for an empty array and the largest id of the
\* array plus 1 otherwise, a positive integer that no item of the array has.
C22_NextIdIsNewPositive ==
    [][(called'.call \in EntitySaves /\ called'.submitted /\ called'.editing = 0)
       => LET f == called'.filename
              old == ArrayOf(currentData, f)
              new == Get(called'.data, ItemsKey(f)).a
              assigned == Get(new[Len(new)], "id")
          IN /\ new = Append(old, new[Len(new)])
             /\ assigned.t = "num"
             /\ old = <<>> => assigned.n = 1
             /\ old # <<>>
                => /\ \E i \in DOMAIN old : assigned.n = Get(old[i], "id").n + 1
                   /\ \A i \in DOMAIN old : assigned.n > Get(old[i], "id").n
             /\ assigned.n > 0
             /\ \A i \in DOMAIN old : Get(old[i], "id") # assigned]_vars

\* The entity of the one form of each kind that the model submits.
FormEntity(filename, id) ==
    CASE filename = "menu.json" -> MenuItem(id, "Tea", Num(300))
      [] filename = "specials.json" -> Special(id, Str("20%"))
      [] filename = "events.json" -> Event(id, Str("jazz"))

\* C27: when a save*() in edit mode got success from saveData, the document
\* it sent holds an item with the id of the editing reference and the values
\* of the form.
C27_UpdatedItemWasSent ==
    (called.call \in EntitySaves /\ called.editing # 0 /\ called.success)
    => \E i \in DOMAIN Get(called.data, ItemsKey(called.filename)).a :
          Get(called.data, ItemsKey(called.filename)).a[i]
             = FormEntity(called.filename, called.editing)

\* C30: the id a save*() assigns to a new item is not the id of the item
\* that the delete*() before it removed from the same array.
C30_DeletedIdNotReused ==
    [][(/\ called.call \in DeleteCalls /\ called.success
        /\ called'.call \in EntitySaves /\ called'.filename = called.filename
        /\ called'.submitted /\ called'.editing = 0)
       => LET new == Get(called'.data, ItemsKey(called'.filename)).a IN
          Get(new[Len(new)], "id") # called.data]_vars


\* C30 as the code has it: the id a save*() assigns to a new item is the id
\* of no item that is in the array when it is assigned.
C30_NewIdNotInArray ==
    [][(called'.call \in EntitySaves /\ called'.submitted /\ called'.editing = 0)
       => LET new == Get(called'.data, ItemsKey(called'.filename)).a IN
          \A i \in DOMAIN ArrayOf(currentData, called'.filename) :
             Get(ArrayOf(currentData, called'.filename)[i], "id")
                # Get(new[Len(new)], "id")]_vars

\* The special with id 1 was deleted and saveSpecial() created the next one:
\* the server's file holds the new special under id 1.
C30_Witness ==
    /\ called.call = "saveSpecial"
    /\ called.editing = 0
    /\ called.success
    /\ files["specials.json"] = SpecialsDoc(<<Special(1, Str("20%"))>>)


\* C25: with this tab the only writer, once no write of the tab to a file is
\* waiting for its response, a cache entry for the file holds what the last
\* successful write left in the file, that is the file's content.
C25_CacheNotOlderThanWrite ==
    \A filename \in ClientFiles :
       (/\ cache["admin"][filename] # NoEntry
        /\ \A c \in inflight : c.call \in Writes => c.req.filename # filename)
       => cache["admin"][filename].data = files[filename]


\* C26: whenever no call of the admin page waits for its response, the item
\* array of currentData.menu is the item array of the server's menu.json.
\* (Every POST of the page is accepted, and a DELETE that is not leaves the
\* file and the array as they are.)
C26_PanelEqualsServerAtRest ==
    inflight = {}
    => ArrayOf(currentData, "menu.json") = ItemsOf("menu.json", files["menu.json"])

\* C29: when editMenuItem(id) was the last thing the admin did and the
\* response of a saveMenuItem() sent before it is handled, editingItem is
\* afterwards what editMenuItem(id) made it.
C29_EditDuringSaveKept ==
    [][(/\ called.call = "editMenuItem"
        /\ \E c \in inflight :
              c.call = "saveData" /\ c.pc = "answered" /\ inflight' = inflight \ {c})
       => editingItem' = editingItem]_vars


\* C23: when the files of the server stop changing, the main website comes
\* to show, in each of its four sections, the document the server has.
C23_EventuallyShowsServerContent ==
    <>[][files' = files]_vars
    => <>(\A section \in Sections : page[section] = files[FileOf[section]])

====
